---- MODULE Spec2Model ----
(***************************************************************************)
(* Model of protonolysis: the binomial rows of numerics.rs, the multiplet  *)
(* cascade of peak.rs (Peak::build_multiplet_cascade and the queries of    *)
(* MultipletCascade), FractionalStageIndex and the other methods of Peak,  *)
(* the sums of line shapes of numerics/distribution, StoreOnNthCall of     *)
(* utils.rs, CyclicallyAnimatedF64 of ui/animation.rs and the frames of    *)
(* Protonolysis::controls in ui.rs.                                        *)
(*                                                                         *)
(* Numbers.  The program computes with f64.  The model computes with exact *)
(* numbers:                                                                *)
(*   - a coupling constant j and a line width fwhm are integers counting   *)
(*     tenths of a hertz (the sliders of the UI show one decimal);         *)
(*   - a shift delta is an integer counting twentieths of a hertz, so that *)
(*     the half coupling constant j / 2 of peak.rs:314 is exact;           *)
(*   - an integration, a normalized binomial weight and a shift in ppm are *)
(*     fractions [num, den] in lowest terms with den > 0, and so are the   *)
(*     j of a partly revealed splitter and every number of a line shape.   *)
(* Rounding of f64 is therefore outside this part of the model; where it   *)
(* decides a result, the operators named f64_... compute the cascade in    *)
(* IEEE 754 binary64 itself.                                               *)
(***************************************************************************)
EXTENDS Integers, Sequences, FiniteSets, TLC

VARIABLES
    peak,       \* the Peak under study: [splitters, fwhm]
    cascade,    \* the MultipletCascade being built: [stages, fwhm]
    queue,      \* the VecDeque of build_multiplet_cascade
    pc,         \* position in build_multiplet_cascade / after it
    result,     \* what the last query on the built cascade returned
    tri_fn,     \* which row iterator is under study
    tri_n,      \* its argument n
    tri_k,      \* the next k of the range 0..=n
    prev,       \* the captured accumulator of pascals_triangle
    row,        \* the terms yielded so far
    tri_done,   \* the iterator has returned None
    dsum,       \* the DistributionSum under study: [kind, components]
    dequeues,   \* how many entries build_multiplet_cascade has dequeued
    view_stage, \* Protonolysis::view_stage, a CyclicallyAnimatedF64
    field_mhz,  \* Protonolysis::field_strength, in MHz
    selected_preset,            \* Protonolysis::selected_preset
    cached_partial_cascade,     \* Protonolysis::cached_partial_cascade
    side_panel_width,           \* Protonolysis::side_panel_width
    calls,      \* the arguments of the calls of StoreOnNthCall::set so far
    frame       \* the last call on view_stage alone, or "drawn" after a frame

vars == <<peak, cascade, queue, pc, result, tri_fn, tri_n, tri_k, prev, row, tri_done, dsum,
          dequeues, view_stage, field_mhz, selected_preset, cached_partial_cascade,
          side_panel_width, calls, frame>>
cascadeVars == <<peak, cascade, queue, pc, result>>
triVars == <<tri_fn, tri_n, tri_k, prev, row, tri_done>>
sumVars == <<dsum>>
appVars == <<view_stage, field_mhz, selected_preset, cached_partial_cascade,
             side_panel_width, calls, frame>>

(***************************************************************************)
(* Bounds of the model.                                                    *)
(***************************************************************************)
MaxSplitters == 2
MaxN == 2
MaxJ == 1
MaxRowN == 12
MaxWideN == 31

\* Coupling constants tried, in tenths of a hertz: 0 .. MaxJ and 1.1 Hz,
\* which is exactly 1.1 times the line width 1.0 Hz.
JValues == (0..MaxJ) \cup {11}
\* Line widths tried, in tenths of a hertz.
FwhmValues == {1, 10}
\* Instrument frequencies tried, in MHz.
FieldStrengths == {60, 600}

(***************************************************************************)
(* Exact arithmetic standing for f64.                                      *)
(***************************************************************************)
Abs(x) == IF x < 0 THEN -x ELSE x

RECURSIVE Gcd(_, _)
Gcd(a, b) == IF b = 0 THEN a ELSE Gcd(b, a % b)

\* n / d for d # 0, in lowest terms with a positive denominator.
Frac(n, d) ==
    LET s == IF d < 0 THEN -1 ELSE 1
        g == Gcd(Abs(n), Abs(d))
    IN  [num |-> (s * n) \div g, den |-> (s * d) \div g]

FOne == Frac(1, 1)
FZero == Frac(0, 1)
FMul(a, b) == Frac(a.num * b.num, a.den * b.den)
FAdd(a, b) == Frac(a.num * b.den + b.num * a.den, a.den * b.den)
FLeq(a, b) == a.num * b.den <= b.num * a.den

RECURSIVE FSum(_)
FSum(s) == IF s = <<>> THEN FZero ELSE FAdd(Head(s), FSum(Tail(s)))

(***************************************************************************)
(* numerics.rs: pascals_triangle and normalized_pascals_triangle.          *)
(***************************************************************************)
\* u32 arithmetic.  The product p * m of an accumulator p < 2^31 and a
\* factor m < 2^15 is held as two halves, hi * 2^16 + lo with lo < 2^16; it
\* fits u32 exactly when hi < 2^16.
HalfWord == 2 ^ 16

MulHalves(p, m) ==
    LET lo == (p % HalfWord) * m
    IN  [hi |-> (p \div HalfWord) * m + lo \div HalfWord, lo |-> lo % HalfWord]

\* The product does not fit u32: `*` panics where overflow checks are
\* compiled in (debug profile) and wraps where they are not (release).
mul_overflows(p, m) == MulHalves(p, m).hi >= HalfWord

\* (p * m mod 2^32) / k, by long division on the halves.
WrappingMulDiv(p, m, k) ==
    LET w == MulHalves(p, m)
        hi == w.hi % HalfWord
    IN  (hi \div k) * HalfWord + ((hi % k) * HalfWord + w.lo) \div k

\* One evaluation of the closure of pascals_triangle: the term for index k,
\* given the accumulator, where the product wraps if it overflows.  For the
\* rows n <= 30 the product stays below 2^32 and the integer division is
\* the only rounding.
PascalTermDivideFirst(p, n, k) == IF k > 0 THEN (p \div k) * (n + 1 - k) ELSE p
PascalTerm(p, n, k) == IF k > 0 THEN WrappingMulDiv(p, n + 1 - k, k) ELSE p

RECURSIVE PascalCollectExclusive(_, _, _)
PascalCollectExclusive(n, k, p) ==
    IF k >= n THEN <<>>
    ELSE LET t == PascalTerm(p, n, k) IN <<t>> \o PascalCollectExclusive(n, k + 1, t)

RECURSIVE PascalCollect(_, _, _)
PascalCollect(n, k, p) ==
    IF k > n THEN <<>>
    ELSE LET t == PascalTerm(p, n, k) IN <<t>> \o PascalCollect(n, k + 1, t)

\* The whole row, as collected from the iterator.
pascals_triangle(n) == PascalCollect(n, 0, 1)

\* 1 << n (n < 31).
RowSumShiftedOne(n) == 2 ^ (n + 1)
RowSum(n) == 2 ^ n

NormalizeTermByCount(a, n) == Frac(a, n + 1)
NormalizeTerm(a, n) == Frac(a, RowSum(n))

normalized_pascals_triangle(n) ==
    LET r == pascals_triangle(n) IN [i \in 1..Len(r) |-> NormalizeTerm(r[i], n)]

(***************************************************************************)
(* The row iterators, one term per step.                                   *)
(***************************************************************************)
TriIdle ==
    /\ tri_fn = "none"
    /\ tri_n = 0
    /\ tri_k = 0
    /\ prev = 1
    /\ row = <<>>
    /\ tri_done = FALSE

\* numerics.rs:82-83: let mut prev = 1; (0..=n)
TriStart ==
    /\ tri_fn \in {"pascals_triangle", "normalized_pascals_triangle"}
    /\ tri_n \in 0..MaxRowN
    /\ tri_k = 0
    /\ prev = 1
    /\ row = <<>>
    /\ tri_done = FALSE

\* Iterator::next of pascals_triangle(tri_n), yielding a term.
PascalNext ==
    /\ tri_fn = "pascals_triangle"
    /\ ~tri_done
    /\ tri_k <= tri_n
    /\ prev' = PascalTerm(prev, tri_n, tri_k)
    /\ row' = Append(row, prev')
    /\ tri_k' = tri_k + 1
    /\ UNCHANGED <<tri_fn, tri_n, tri_done>>
    /\ UNCHANGED cascadeVars
    /\ UNCHANGED sumVars
    /\ UNCHANGED <<dequeues, appVars>>

\* Iterator::next of pascals_triangle(tri_n) where the product overflows and
\* overflow checks are compiled in: the call panics.
PascalPanic ==
    /\ tri_fn = "pascals_triangle"
    /\ ~tri_done
    /\ tri_k <= tri_n
    /\ tri_k > 0
    /\ mul_overflows(prev, tri_n + 1 - tri_k)
    /\ tri_done' = TRUE
    /\ pc' = "panicked"
    /\ UNCHANGED <<tri_fn, tri_n, tri_k, prev, row>>
    /\ UNCHANGED <<peak, cascade, queue, result>>
    /\ UNCHANGED sumVars
    /\ UNCHANGED <<dequeues, appVars>>

\* Iterator::next of normalized_pascals_triangle(tri_n), yielding a term.
NormalizedNext ==
    /\ tri_fn = "normalized_pascals_triangle"
    /\ ~tri_done
    /\ tri_k <= tri_n
    /\ prev' = PascalTerm(prev, tri_n, tri_k)
    /\ row' = Append(row, NormalizeTerm(prev', tri_n))
    /\ tri_k' = tri_k + 1
    /\ UNCHANGED <<tri_fn, tri_n, tri_done>>
    /\ UNCHANGED cascadeVars
    /\ UNCHANGED sumVars
    /\ UNCHANGED <<dequeues, appVars>>

\* Iterator::next returning None: the range 0..=n is exhausted.
TriEnd ==
    /\ tri_fn # "none"
    /\ ~tri_done
    /\ tri_k > tri_n
    /\ tri_done' = TRUE
    /\ UNCHANGED <<tri_fn, tri_n, tri_k, prev, row>>
    /\ UNCHANGED cascadeVars
    /\ UNCHANGED sumVars
    /\ UNCHANGED <<dequeues, appVars>>

(***************************************************************************)
(* peak.rs: Splitter, Peaklet, Peak.                                       *)
(***************************************************************************)
Splitters == [n : 0..MaxN, j : JValues]

SeqsUpTo(S, m) == UNION {[1..k -> S] : k \in 0..m}

Peaks == [splitters : SeqsUpTo(Splitters, MaxSplitters), fwhm : FwhmValues]

resultant_peaklet_count_n(s) == s.n
resultant_peaklet_count(s) == s.n + 1

PARENT_SINGLET_HALF == [delta |-> 0, integration |-> Frac(1, 2)]
PARENT_SINGLET == [delta |-> 0, integration |-> FOne]

\* |a.delta - b.delta| < fwhm * 1.1, with delta in twentieths and fwhm in
\* tenths of a hertz: |d| / 20 < (fwhm / 10) * (11 / 10).
overlaps_with_inclusive(a, b, fwhm) == 5 * Abs(a.delta - b.delta) <= 11 * fwhm
overlaps_with(a, b, fwhm) == 5 * Abs(a.delta - b.delta) < 11 * fwhm

\* VecDeque::pop_front and VecDeque::push_back.
pop_back(q) == [item |-> q[Len(q)], rest |-> SubSeq(q, 1, Len(q) - 1)]
pop_front(q) == [item |-> Head(q), rest |-> Tail(q)]
push_front(q, x) == <<x>> \o q
push_back(q, x) == Append(q, x)

\* The children of one peaklet under one splitter, in the order of the for
\* loop of peak.rs:313-322: delta starts at peaklet.delta - (peak_count - 1) *
\* j / 2 and grows by j per term of the normalized row.
RECURSIVE ChildLoopUnweighted(_, _, _, _)
ChildLoopUnweighted(peaklet, splitter, weights, delta) ==
    IF weights = <<>> THEN <<>>
    ELSE <<[delta |-> delta, integration |-> Head(weights)]>>
         \o ChildLoopUnweighted(peaklet, splitter, Tail(weights), delta + 2 * splitter.j)

RECURSIVE ChildLoop(_, _, _, _)
ChildLoop(peaklet, splitter, weights, delta) ==
    IF weights = <<>> THEN <<>>
    ELSE <<[delta |-> delta,
            integration |-> FMul(peaklet.integration, Head(weights))]>>
         \o ChildLoop(peaklet, splitter, Tail(weights), delta + 2 * splitter.j)

\* The children placed from the origin instead of from their parent.
ChildPeakletsAtOrigin(peaklet, splitter) ==
    LET peak_count == resultant_peaklet_count(splitter)
        delta == 0 - (peak_count - 1) * splitter.j
    IN  ChildLoop(peaklet, splitter, normalized_pascals_triangle(splitter.n), delta)

ChildPeaklets(peaklet, splitter) ==
    LET peak_count == resultant_peaklet_count(splitter)
        delta == peaklet.delta - (peak_count - 1) * splitter.j
    IN  ChildLoop(peaklet, splitter, normalized_pascals_triangle(splitter.n), delta)

RECURSIVE PushAll(_, _, _)
PushAll(q, children, child_splitters) ==
    IF children = <<>> THEN q
    ELSE PushAll(push_back(q, [peaklet |-> Head(children), splitters |-> child_splitters]),
                 Tail(children), child_splitters)

(***************************************************************************)
(* Peak::build_multiplet_cascade, one loop iteration per step.             *)
(***************************************************************************)
NoCascade == [stages |-> <<>>, fwhm |-> 0]
NoResult == [op |-> "none", n |-> 0, panic |-> "", value |-> <<>>]
NoSum == [kind |-> "none", components |-> <<>>]

\* No application has been constructed: only a Peak, a row iterator or a sum
\* of line shapes is under study.
NoView == [value |-> 0, range |-> <<0, 0>>, direction |-> "Forward", anim_state |-> <<>>]
NoWidth == [N |-> 0, set_count |-> 0, value |-> <<>>]
AppIdle ==
    /\ view_stage = NoView
    /\ field_mhz = 0
    /\ selected_preset = ""
    /\ cached_partial_cascade = NoCascade
    /\ side_panel_width = NoWidth
    /\ calls = <<>>
    /\ frame = "none"

\* peak.rs:297-303.  Stage i of the program is stages[i + 1] here.
BuildBegin ==
    /\ pc = "idle"
    /\ cascade' = [stages |-> [i \in 1..(Len(peak.splitters) + 1) |-> <<>>],
                   fwhm |-> peak.fwhm]
    /\ queue' = push_back(<<>>, [peaklet |-> PARENT_SINGLET, splitters |-> peak.splitters])
    /\ pc' = "loop"
    /\ UNCHANGED <<peak, result>>
    /\ UNCHANGED triVars
    /\ UNCHANGED sumVars
    /\ UNCHANGED <<dequeues, appVars>>

\* peak.rs:305-322: one iteration of the while-let loop.
BuildLoop ==
    /\ pc = "loop"
    /\ queue # <<>>
    /\ LET popped == pop_front(queue)
           peaklet == popped.item.peaklet
           splitters == popped.item.splitters
           peaklet_stage == Len(peak.splitters) - Len(splitters)
       IN  /\ cascade' = [cascade EXCEPT
                            !.stages[peaklet_stage + 1] = Append(@, peaklet)]
           /\ queue' = IF splitters = <<>>
                       THEN popped.rest
                       ELSE PushAll(popped.rest,
                                    ChildPeaklets(peaklet, Head(splitters)),
                                    Tail(splitters))
    /\ dequeues' = dequeues + 1
    /\ UNCHANGED <<peak, pc, result>>
    /\ UNCHANGED triVars
    /\ UNCHANGED sumVars
    /\ UNCHANGED appVars

\* peak.rs:305, 325: the queue is empty, the cascade is returned.
BuildReturn ==
    /\ pc = "loop"
    /\ queue = <<>>
    /\ pc' = "done"
    /\ UNCHANGED <<peak, cascade, queue, result>>
    /\ UNCHANGED triVars
    /\ UNCHANGED sumVars
    /\ UNCHANGED <<dequeues, appVars>>

(***************************************************************************)
(* MultipletCascade: the queries on a built cascade.  A call that panics   *)
(* returns [panic |-> <message>]; otherwise panic is "".                   *)
(***************************************************************************)
Returned(v) == [panic |-> "", value |-> v]
Panicked(msg) == [panic |-> msg, value |-> <<>>]

\* The peaklets of stage n (counted from 0, as in the program).
Stage(c, n) == c.stages[n + 1]
StageCount(c) == Len(c.stages)

base_peaklet(c) ==
    IF StageCount(c) = 0 THEN Panicked("index out of bounds")
    ELSE IF Len(Stage(c, 0)) # 1 THEN Panicked("assert_eq base_stage.len() == 1")
    ELSE Returned(Stage(c, 0)[1])

child_stages_count(c) == StageCount(c) - 1

\* slice::chunks_exact(group_size).enumerate().map(..), collected.
GroupsFirstParent(c, n, group_size) ==
    [i \in 1..(Len(Stage(c, n)) \div group_size) |->
        [parent |-> Stage(c, n - 1)[1],
         children |-> SubSeq(Stage(c, n), (i - 1) * group_size + 1, i * group_size)]]
Groups(c, n, group_size) ==
    [i \in 1..(Len(Stage(c, n)) \div group_size) |->
        [parent |-> Stage(c, n - 1)[i],
         children |-> SubSeq(Stage(c, n), (i - 1) * group_size + 1, i * group_size)]]

iter_nth_stage(c, n) ==
    IF n = 0 THEN Panicked("should not be called on base stage")
    ELSE IF n >= StageCount(c) THEN Panicked("index out of bounds")
    ELSE LET parent_count == Len(Stage(c, n - 1))
             children_count == Len(Stage(c, n))
         IN  IF parent_count = 0
             THEN Panicked("attempt to calculate the remainder with a divisor of zero")
             ELSE IF children_count % parent_count # 0
             THEN Panicked("the number of child peaklets should be an integer multiple of the number of parents")
             ELSE IF children_count \div parent_count = 0
             THEN Panicked("chunk size must be non-zero")
             ELSE Returned(Groups(c, n, children_count \div parent_count))

\* slice::array_windows::<2>().all(|[a, b]| !a.overlaps_with(*b, fwhm))
AllWindowsResolved(children, fwhm) ==
    \A i \in 1..(Len(children) - 1) : ~overlaps_with(children[i], children[i + 1], fwhm)

FirstGroup(groups) == groups[1]

is_stage_resolved(c, n) ==
    IF n = 0 THEN Returned(TRUE)
    ELSE LET it == iter_nth_stage(c, n)
         IN  IF it.panic # "" THEN it
             ELSE IF it.value = <<>> THEN Panicked("called Option::unwrap() on a None value")
             ELSE Returned(AllWindowsResolved(FirstGroup(it.value).children, c.fwhm))

\* peak.rs:20-22: j / frequency, for a quantity counted in 1/unit hertz.
j_to_ppm(x, unit, frequency) == Frac(x, unit * frequency)

\* Gaussian::with_fwhm: the component keeps the line width it was built
\* from (sigma is that width over the constant 2.354820045).
with_fwhm(fwhm, mu, normalize) == [mu |-> mu, fwhm |-> fwhm, normalize |-> normalize]

\* FromIterator for GaussianSum: a stable sort by mu.
RECURSIVE InsertByMu(_, _)
InsertByMu(sorted, g) ==
    IF sorted = <<>> THEN <<g>>
    ELSE IF FLeq(sorted[Len(sorted)].mu, g.mu) THEN Append(sorted, g)
    ELSE Append(InsertByMu(SubSeq(sorted, 1, Len(sorted) - 1), g), sorted[Len(sorted)])

RECURSIVE SortByMu(_)
SortByMu(s) ==
    IF s = <<>> THEN <<>>
    ELSE InsertByMu(SortByMu(SubSeq(s, 1, Len(s) - 1)), s[Len(s)])

nth_waveform(c, n, field_strength) ==
    IF n >= StageCount(c) THEN Panicked("index out of bounds")
    ELSE Returned(SortByMu([i \in 1..Len(Stage(c, n)) |->
            with_fwhm(j_to_ppm(c.fwhm, 10, field_strength),
                      j_to_ppm(Stage(c, n)[i].delta, 20, field_strength),
                      Stage(c, n)[i].integration)]))

final_waveform(c, field_strength) == nth_waveform(c, StageCount(c) - 1, field_strength)

\* A query is made on the cascade build_multiplet_cascade returned, once the
\* caller has dropped what the query before it returned; a panic ends the
\* program.
Answer(op, n, r) ==
    /\ result.op = "none"
    /\ result' = [op |-> op, n |-> n, panic |-> r.panic, value |-> r.value]
    /\ pc' = IF r.panic = "" THEN "done" ELSE "panicked"
    /\ UNCHANGED <<peak, cascade, queue>>
    /\ UNCHANGED triVars
    /\ UNCHANGED sumVars
    /\ UNCHANGED <<dequeues, appVars>>

BasePeaklet ==
    /\ pc = "done"
    /\ Answer("base_peaklet", 0, base_peaklet(cascade))

ChildStagesCount ==
    /\ pc = "done"
    /\ Answer("child_stages_count", 0, Returned(child_stages_count(cascade)))

IterNthStage ==
    /\ pc = "done"
    /\ \E n \in 0..StageCount(cascade) : Answer("iter_nth_stage", n, iter_nth_stage(cascade, n))

IsStageResolved ==
    /\ pc = "done"
    /\ \E n \in 0..StageCount(cascade) :
          Answer("is_stage_resolved", n, is_stage_resolved(cascade, n))

NthWaveform ==
    /\ pc = "done"
    /\ \E n \in 0..StageCount(cascade), f \in FieldStrengths :
          Answer("nth_waveform", n, nth_waveform(cascade, n, f))

FinalWaveform ==
    /\ pc = "done"
    /\ \E f \in FieldStrengths :
          Answer("final_waveform", StageCount(cascade) - 1, final_waveform(cascade, f))

\* The caller drops the value the last query returned.
DropResult ==
    /\ pc = "done"
    /\ result.op # "none"
    /\ result' = NoResult
    /\ UNCHANGED <<peak, cascade, queue, pc>>
    /\ UNCHANGED triVars
    /\ UNCHANGED sumVars
    /\ UNCHANGED <<dequeues, appVars>>

(***************************************************************************)
(* peak.rs: FractionalStageIndex.  An index value is [q, tiny]: the        *)
(* fraction q, plus, when tiny holds, a positive amount that is not above  *)
(* f64::EPSILON (2^-52).  Among the values of f64 only 0 and 1 have such a *)
(* neighbour above them; every non-zero multiple of 1 / IndexDen is far    *)
(* above f64::EPSILON.                                                     *)
(***************************************************************************)
IndexDen == 4

Exact(q) == [q |-> q, tiny |-> FALSE]

IndexValues ==
    {Exact(Frac(m, IndexDen)) : m \in (-IndexDen)..((MaxSplitters + 2) * IndexDen)}
    \cup {[q |-> Frac(w, 1), tiny |-> TRUE] : w \in {0, 1}}

None == [some |-> FALSE, value |-> <<>>]
Some(x) == [some |-> TRUE, value |-> x]

\* assert!(index >= 0.0); Self(index)
new_unchecked(index) == Returned(index)
new(index) ==
    IF index.q.num < 0 THEN Panicked("assertion failed: index >= 0.0")
    ELSE Returned(index)

\* f64::floor and f64::trunc.
floor(v) == v.q.num \div v.q.den
trunc(v) == IF v.q.num >= 0 THEN v.q.num \div v.q.den ELSE -((-v.q.num) \div v.q.den)

\* f64::fract: self - self.trunc().
fract(v) == [q |-> Frac(v.q.num - trunc(v) * v.q.den, v.q.den), tiny |-> v.tiny]

\* approx::abs_diff_ne!(x, 0.0) with the default epsilon f64::EPSILON:
\* |x - 0| > f64::EPSILON.
differs_from_zero(x) == x.q.num # 0 \/ x.tiny
abs_diff_ne_zero(x) == x.q.num # 0

full(v) == floor(v)

has_significant_partial(v) == abs_diff_ne_zero(fract(v))

partial_and_index(v) ==
    IF has_significant_partial(v)
    THEN Some([index |-> full(v) + 1, part |-> fract(v).q])
    ELSE None

total_stage_count_next(v) == full(v) + 1
total_stage_count(v) == full(v) + (IF has_significant_partial(v) THEN 1 ELSE 0)

(***************************************************************************)
(* peak.rs: the methods of Peak besides build_multiplet_cascade.           *)
(***************************************************************************)
RECURSIVE IterSum(_)
IterSum(s) == IF s = <<>> THEN 0 ELSE Head(s) + IterSum(Tail(s))

\* Iterator::product over u32.  The counts of this model stay far below
\* 2^32, where the product neither wraps nor panics.
RECURSIVE IterProduct(_)
IterProduct(s) == IF s = <<>> THEN 1 ELSE Head(s) * IterProduct(Tail(s))

total_peaklet_count(p) ==
    IterProduct([i \in 1..Len(p.splitters) |-> resultant_peaklet_count(p.splitters[i])])

\* Vec::truncate.
truncate(s, len) == IF len >= Len(s) THEN s ELSE SubSeq(s, 1, len)

\* j *= part, with j in tenths of a hertz: the j of a partly revealed
\* splitter is a fraction of tenths of a hertz.
ScaleJComplement(j, part) == Frac(j * (part.den - part.num), part.den)
ScaleJ(j, part) == Frac(j * part.num, part.den)

\* peak.rs:285-293.  The clone is the value returned; self is not touched.
nth_partial_peak(p, n) ==
    LET truncated == truncate(p.splitters, total_stage_count(n))
        partial == partial_and_index(n)
    IN  IF ~partial.some
        THEN Returned([p EXCEPT !.splitters = truncated])
        ELSE IF partial.value.index - 1 >= Len(truncated)
        THEN Panicked("index out of bounds")
        ELSE Returned([p EXCEPT !.splitters =
                [truncated EXCEPT ![partial.value.index].j = ScaleJ(@, partial.value.part)]])

\* peak.nth_partial_peak(FractionalStageIndex::new(v)), as called at
\* ui.rs:371-372.
NthPartialPeakOf(p, v) ==
    LET n == new(v)
    IN  IF n.panic # "" THEN n ELSE nth_partial_peak(p, n.value)

\* Peak::build_multiplet_cascade as one call: the loop of peak.rs:305-322 run
\* until the queue is empty.
BuildTurn(p, st) ==
    LET popped == pop_front(st.queue)
        peaklet == popped.item.peaklet
        splitters == popped.item.splitters
        peaklet_stage == Len(p.splitters) - Len(splitters)
    IN  [cascade |-> [st.cascade EXCEPT !.stages[peaklet_stage + 1] = Append(@, peaklet)],
         queue |-> IF splitters = <<>>
                   THEN popped.rest
                   ELSE PushAll(popped.rest,
                                ChildPeaklets(peaklet, Head(splitters)),
                                Tail(splitters))]

RECURSIVE BuildRun(_, _)
BuildRun(p, st) == IF st.queue = <<>> THEN st.cascade ELSE BuildRun(p, BuildTurn(p, st))

build_multiplet_cascade(p) ==
    BuildRun(p, [cascade |-> [stages |-> [i \in 1..(Len(p.splitters) + 1) |-> <<>>],
                              fwhm |-> p.fwhm],
                 queue |-> push_back(<<>>, [peaklet |-> PARENT_SINGLET,
                                            splitters |-> p.splitters])])

\* ui.rs:370-373: the cascade of the partial peak of a whole view stage.
partial_cascade(p, k) ==
    LET partial == NthPartialPeakOf(p, Exact(Frac(k, 1)))
    IN  IF partial.panic # "" THEN partial
        ELSE Returned(build_multiplet_cascade(partial.value))

TotalPeakletCount ==
    /\ pc = "done"
    /\ Answer("total_peaklet_count", 0, Returned(total_peaklet_count(peak)))

PartialCascade ==
    /\ pc = "done"
    /\ \E k \in (-1)..Len(peak.splitters) :
          Answer("partial_cascade", k, partial_cascade(peak, k))

\* A method of Peak or of FractionalStageIndex is called before anything is
\* built, once the caller has dropped what the call before it returned; a
\* panic ends the program.
PeakAnswer(op, n, r) ==
    /\ pc = "idle"
    /\ result.op = "none"
    /\ result' = [op |-> op, n |-> n, panic |-> r.panic, value |-> r.value]
    /\ pc' = IF r.panic = "" THEN "idle" ELSE "panicked"
    /\ UNCHANGED <<peak, cascade, queue>>
    /\ UNCHANGED triVars
    /\ UNCHANGED sumVars
    /\ UNCHANGED <<dequeues, appVars>>

NthPartialPeak ==
    \E v \in IndexValues : PeakAnswer("nth_partial_peak", v, NthPartialPeakOf(peak, v))

\* A method of FractionalStageIndex is called on the value new returned.
IndexNew ==
    \E v \in IndexValues : PeakAnswer("new", v, new(v))

IndexFull ==
    \E v \in IndexValues :
        PeakAnswer("full", v,
                   IF new(v).panic # "" THEN new(v) ELSE Returned(full(new(v).value)))

IndexHasSignificantPartial ==
    \E v \in IndexValues :
        PeakAnswer("has_significant_partial", v,
                   IF new(v).panic # "" THEN new(v)
                   ELSE Returned(has_significant_partial(new(v).value)))

IndexPartialAndIndex ==
    \E v \in IndexValues :
        PeakAnswer("partial_and_index", v,
                   IF new(v).panic # "" THEN new(v)
                   ELSE Returned(partial_and_index(new(v).value)))

IndexTotalStageCount ==
    \E v \in IndexValues :
        PeakAnswer("total_stage_count", v,
                   IF new(v).panic # "" THEN new(v)
                   ELSE Returned(total_stage_count(new(v).value)))

\* The caller drops the value the last call returned.
DropValue ==
    /\ pc = "idle"
    /\ result.op # "none"
    /\ result' = NoResult
    /\ UNCHANGED <<peak, cascade, queue, pc>>
    /\ UNCHANGED triVars
    /\ UNCHANGED sumVars
    /\ UNCHANGED <<dequeues, appVars>>

(***************************************************************************)
(* numerics/distribution.rs, distribution/gaussian.rs, lorentzian.rs,      *)
(* distribution_sum.rs, gaussian_sum.rs and the older numerics.rs: line    *)
(* shapes and their sums.  A component is [kind, mu, spread, normalize],   *)
(* where spread is the sigma of a Gaussian or the gamma of a Lorentzian;   *)
(* all three numbers are fractions.  A density is held in units of 1 / pi, *)
(* which is exact for a Lorentzian; the exponential of a Gaussian has no   *)
(* exact value here.                                                       *)
(***************************************************************************)
FSub(a, b) == Frac(a.num * b.den - b.num * a.den, a.den * b.den)
FDiv(a, b) == Frac(a.num * b.den, a.den * b.num)
FMin(a, b) == IF FLeq(a, b) THEN a ELSE b
FMax(a, b) == IF FLeq(a, b) THEN b ELSE a

\* Gaussian::FWHM_FOR_σ = 2.354_820_045, cut to four decimals.
FWHM_FOR_SIGMA == Frac(23548, 10000)

with_fwhm_normalized(kind, mu, fwhm, normalization) ==
    [kind |-> kind,
     mu |-> mu,
     spread |-> IF kind = "gaussian" THEN FDiv(fwhm, FWHM_FOR_SIGMA)
                ELSE FDiv(fwhm, Frac(2, 1)),
     normalize |-> normalization]

fwhm(g) ==
    IF g.kind = "gaussian" THEN FMul(g.spread, FWHM_FOR_SIGMA)
    ELSE FMul(g.spread, Frac(2, 1))

\* RenormalizedDistribution::extent_by_fwhm, the provided method.
extent_by_fwhm_across(g, n) ==
    [lo |-> FSub(g.mu, FMul(FMul(fwhm(g), n), Frac(1, 2))),
     hi |-> FAdd(g.mu, FMul(FMul(fwhm(g), n), Frac(1, 2)))]
extent_by_fwhm(g, n) ==
    [lo |-> FSub(g.mu, FMul(fwhm(g), n)), hi |-> FAdd(g.mu, FMul(fwhm(g), n))]

\* The older Gaussian::extent: sigmas standard deviations out from the mean.
extent(g, sigmas) ==
    [lo |-> FSub(g.mu, FMul(g.spread, sigmas)), hi |-> FAdd(g.mu, FMul(g.spread, sigmas))]

\* Lorentzian::evaluate, in units of 1 / pi.
evaluate(g, x) ==
    FMul(FDiv(g.spread, FAdd(FMul(FSub(x, g.mu), FSub(x, g.mu)), FMul(g.spread, g.spread))),
         g.normalize)

\* FromIterator: collect, then sort by mu (a stable sort).
from_iter(kind, distributions) == [kind |-> kind, components |-> SortByMu(distributions)]

\* Iterator::reduce with (l1.min(l2), r1.max(r2)), from the left.
RECURSIVE ReduceUnionLeftmost(_, _)
ReduceUnionLeftmost(acc, extents) ==
    IF extents = <<>> THEN acc
    ELSE ReduceUnionLeftmost([lo |-> FMin(acc.lo, Head(extents).lo),
                              hi |-> FMin(acc.hi, Head(extents).hi)], Tail(extents))

RECURSIVE ReduceUnion(_, _)
ReduceUnion(acc, extents) ==
    IF extents = <<>> THEN acc
    ELSE ReduceUnion([lo |-> FMin(acc.lo, Head(extents).lo),
                      hi |-> FMax(acc.hi, Head(extents).hi)], Tail(extents))

\* DistributionSum::extent_by_fwhm (GaussianSum::extent of gaussian_sum.rs
\* is the same code).
sum_extent_by_fwhm(s, n) ==
    LET extents == [i \in 1..Len(s.components) |-> extent_by_fwhm(s.components[i], n)]
    IN  IF extents = <<>> THEN [lo |-> FZero, hi |-> FZero]
        ELSE ReduceUnion(Head(extents), Tail(extents))

\* GaussianSum::extent of the older numerics.rs.
sum_extent(s, sigmas) ==
    LET extents == [i \in 1..Len(s.components) |-> extent(s.components[i], sigmas)]
    IN  IF extents = <<>> THEN [lo |-> FZero, hi |-> FZero]
        ELSE ReduceUnion(Head(extents), Tail(extents))

\* DistributionSum::evaluate: the sum of the components at x.
sum_evaluate(s, x) == FSum([i \in 1..Len(s.components) |-> evaluate(s.components[i], x)])

\* Iterator::reduce(f64::max).
RECURSIVE ReduceMax(_, _)
ReduceMax(acc, values) ==
    IF values = <<>> THEN acc ELSE ReduceMax(FMax(acc, Head(values)), Tail(values))

\* DistributionSum::max, evaluating each component alone / the whole sum.
sum_max_alone(s) ==
    LET values == [i \in 1..Len(s.components) |->
                      evaluate(s.components[i], s.components[i].mu)]
    IN  IF values = <<>> THEN FZero ELSE ReduceMax(Head(values), Tail(values))
sum_max(s) ==
    LET values == [i \in 1..Len(s.components) |-> sum_evaluate(s, s.components[i].mu)]
    IN  IF values = <<>> THEN FZero ELSE ReduceMax(Head(values), Tail(values))

\* Bounds and values of the sums tried.
MaxComponents == 2
Kinds == {"gaussian", "lorentzian"}
Centers == {Frac(0, 1), Frac(1, 1), Frac(5, 1)}
Widths == {Frac(1, 1), Frac(2, 1)}
Normalizations == {FOne, Frac(1, 2)}
Multipliers == {Frac(-1, 1), Frac(0, 1), Frac(1, 2), Frac(3, 1)}

Distributions(kind) ==
    {with_fwhm_normalized(kind, mu, w, normalization) :
        mu \in Centers, w \in Widths, normalization \in Normalizations}

DistributionSums ==
    UNION {{from_iter(kind, s) : s \in SeqsUpTo(Distributions(kind), MaxComponents)} :
              kind \in Kinds}

\* A method of the sum is called, once the caller has dropped what the call
\* before it returned.
SumAnswer(op, n, v) ==
    /\ pc = "idle"
    /\ result.op = "none"
    /\ result' = [op |-> op, n |-> n, panic |-> "", value |-> v]
    /\ UNCHANGED <<peak, cascade, queue, pc>>
    /\ UNCHANGED triVars
    /\ UNCHANGED sumVars
    /\ UNCHANGED <<dequeues, appVars>>

ExtentByFwhm ==
    \E n \in Multipliers : SumAnswer("extent_by_fwhm", n, sum_extent_by_fwhm(dsum, n))

\* The older GaussianSum::extent, on a sum of Gaussians.
ExtentBySigma ==
    /\ dsum.kind = "gaussian"
    /\ \E sigmas \in Multipliers : SumAnswer("extent", sigmas, sum_extent(dsum, sigmas))

\* max, on a sum of Lorentzians, whose values are exact.
SumMax ==
    /\ dsum.kind = "lorentzian"
    /\ SumAnswer("max", FZero, sum_max(dsum))

(***************************************************************************)
(* peak.rs: Splitter::abbreviate_pattern and Peak::name.  A string is the  *)
(* sequence of its characters; a Cow is [borrowed, text].                  *)
(***************************************************************************)
PATTERN_ABBREVIATIONS ==
    <<<<"s">>, <<"d">>, <<"t">>, <<"q">>, <<"p">>, <<"h">>, <<"h", "e", "p", "t">>>>

Borrowed(text) == [borrowed |-> TRUE, text |-> text]
Owned(text) == [borrowed |-> FALSE, text |-> text]

\* u32::to_string.
RECURSIVE to_string(_)
to_string(k) ==
    LET digit == <<"0", "1", "2", "3", "4", "5", "6", "7", "8", "9">>[(k % 10) + 1]
    IN  IF k < 10 THEN <<digit>> ELSE to_string(k \div 10) \o <<digit>>

\* peak.rs:93-102: the entry of the table, or the peaklet count in digits.
abbreviate_pattern(s) ==
    IF s.n < Len(PATTERN_ABBREVIATIONS) THEN Borrowed(PATTERN_ABBREVIATIONS[s.n + 1])
    ELSE Owned(to_string(resultant_peaklet_count(s)))

\* peak.rs:275: keep a name of one character that comes from the table.
one_character(name) == IF Len(name.text) = 1 THEN Some(name) ELSE None
one_letter(name) == IF Len(name.text) = 1 /\ name.borrowed THEN Some(name) ELSE None

\* Iterator::collect::<Option<String>>: the texts joined, or None at the
\* first None.
RECURSIVE collect(_)
collect(options) ==
    IF options = <<>> THEN Some(<<>>)
    ELSE IF ~Head(options).some THEN None
    ELSE LET rest == collect(Tail(options))
         IN  IF rest.some THEN Some(Head(options).value.text \o rest.value) ELSE None

\* peak.rs:268-278.
name(p) ==
    IF Len(p.splitters) = 0 THEN Some(PATTERN_ABBREVIATIONS[1])
    ELSE collect([i \in 1..Len(p.splitters) |->
                     one_letter(abbreviate_pattern(p.splitters[i]))])

\* The peaks named: up to MaxProtons protons per splitter.
MaxProtons == 9
NamePeaks ==
    [splitters : SeqsUpTo([n : 0..MaxProtons, j : {11}], MaxSplitters), fwhm : {10}]

Name ==
    PeakAnswer("name", 0, Returned(name(peak)))

(***************************************************************************)
(* Peak::sort_by_j (peak.rs), the "Sort by J" button.                      *)
(***************************************************************************)
\* slice::sort_by with the comparator b.j.total_cmp(&a.j): a stable sort in
\* which a splitter precedes another when its j is the greater one.
RECURSIVE InsertByJ(_, _)
InsertByJ(sorted, s) ==
    IF sorted = <<>> THEN <<s>>
    ELSE IF sorted[Len(sorted)].j >= s.j THEN Append(sorted, s)
    ELSE Append(InsertByJ(SubSeq(sorted, 1, Len(sorted) - 1), s), sorted[Len(sorted)])

RECURSIVE SortedByJ(_)
SortedByJ(s) ==
    IF s = <<>> THEN <<>>
    ELSE InsertByJ(SortedByJ(SubSeq(s, 1, Len(s) - 1)), s[Len(s)])

sort_by_j(p) == [p EXCEPT !.splitters = SortedByJ(p.splitters)]

\* The peak is sorted in place; the call returns nothing.
SortByJ ==
    /\ pc = "idle"
    /\ result.op = "none"
    /\ peak' = sort_by_j(peak)
    /\ result' = [op |-> "sort_by_j", n |-> 0, panic |-> "", value |-> <<>>]
    /\ UNCHANGED <<cascade, queue, pc>>
    /\ UNCHANGED triVars
    /\ UNCHANGED sumVars
    /\ UNCHANGED <<dequeues, appVars>>

(***************************************************************************)
(* f64 as the program computes with it: IEEE 754 binary64, round to        *)
(* nearest, ties to even.  A finite double is [neg, mag], where mag is the *)
(* magnitude counted in units of 2^-GridBits, written in binary with the   *)
(* least significant bit first and no leading zero (<<>> is zero).  Every  *)
(* double between 2^(53 - GridBits) and 2^63 in magnitude is on that grid; *)
(* the model never leaves that range (no subnormal, no overflow).          *)
(***************************************************************************)
\* The width of the significand of binary64 and the grid the model counts in.
MantissaBits == 53
GridBits == 60

Zeros(n) == [i \in 1..n |-> 0]
Pad(a, n) == a \o Zeros(n - Len(a))

RECURSIVE Bits(_)
Bits(n) == IF n = 0 THEN <<>> ELSE <<n % 2>> \o Bits(n \div 2)

Trim(a) ==
    LET ones == {i \in 1..Len(a) : a[i] = 1}
    IN  IF ones = {} THEN <<>>
        ELSE SubSeq(a, 1, CHOOSE i \in ones : \A k \in ones : k <= i)

\* The operations below work on two magnitudes of one length, a half at a
\* time, the carry (borrow, remainder) passing from one half to the other.
RECURSIVE AddCarry(_, _, _)
AddCarry(a, b, carry) ==
    IF a = <<>> THEN [bits |-> <<>>, carry |-> carry]
    ELSE IF Len(a) = 1
    THEN [bits |-> <<(a[1] + b[1] + carry) % 2>>, carry |-> (a[1] + b[1] + carry) \div 2]
    ELSE LET k == Len(a) \div 2
             lo == AddCarry(SubSeq(a, 1, k), SubSeq(b, 1, k), carry)
         IN  IF lo.carry = 0
             THEN LET hi == AddCarry(SubSeq(a, k + 1, Len(a)), SubSeq(b, k + 1, Len(b)), 0)
                  IN  [bits |-> lo.bits \o hi.bits, carry |-> hi.carry]
             ELSE LET hi == AddCarry(SubSeq(a, k + 1, Len(a)), SubSeq(b, k + 1, Len(b)), 1)
                  IN  [bits |-> lo.bits \o hi.bits, carry |-> hi.carry]

NatAdd(a, b) ==
    LET n == IF Len(a) > Len(b) THEN Len(a) ELSE Len(b)
        r == AddCarry(Pad(a, n), Pad(b, n), 0)
    IN  IF r.carry = 1 THEN Append(r.bits, 1) ELSE r.bits

RECURSIVE SubBorrow(_, _, _)
SubBorrow(a, b, borrow) ==
    IF a = <<>> THEN [bits |-> <<>>, borrow |-> borrow]
    ELSE IF Len(a) = 1
    THEN [bits |-> <<(a[1] - b[1] - borrow) % 2>>,
          borrow |-> IF a[1] - b[1] - borrow < 0 THEN 1 ELSE 0]
    ELSE LET k == Len(a) \div 2
             lo == SubBorrow(SubSeq(a, 1, k), SubSeq(b, 1, k), borrow)
         IN  IF lo.borrow = 0
             THEN LET hi == SubBorrow(SubSeq(a, k + 1, Len(a)), SubSeq(b, k + 1, Len(b)), 0)
                  IN  [bits |-> lo.bits \o hi.bits, borrow |-> hi.borrow]
             ELSE LET hi == SubBorrow(SubSeq(a, k + 1, Len(a)), SubSeq(b, k + 1, Len(b)), 1)
                  IN  [bits |-> lo.bits \o hi.bits, borrow |-> hi.borrow]

\* a - b, for a >= b.
NatSub(a, b) == Trim(SubBorrow(a, Pad(b, Len(a)), 0).bits)

\* a < b, for magnitudes without leading zeros.
NatLess(a, b) ==
    IF Len(a) # Len(b) THEN Len(a) < Len(b)
    ELSE \E i \in 1..Len(a) :
            /\ a[i] < b[i]
            /\ \A k \in (i + 1)..Len(a) : a[k] = b[k]

\* a * b, by halving b: a * (hi * 2^k + lo) = (a * hi) * 2^k + a * lo.
RECURSIVE NatMul(_, _)
NatMul(a, b) ==
    IF a = <<>> \/ b = <<>> THEN <<>>
    ELSE IF Len(b) = 1 THEN (IF b[1] = 1 THEN a ELSE <<>>)
    ELSE LET k == Len(b) \div 2
             lo == NatMul(a, SubSeq(b, 1, k))
             hi == NatMul(a, SubSeq(b, k + 1, Len(b)))
         IN  NatAdd(lo, IF hi = <<>> THEN <<>> ELSE Zeros(k) \o hi)

\* Quotient and remainder of rem * 2^Len(a) + a by a small divisor d, the
\* high half first; rem < d.
RECURSIVE DivRem(_, _, _)
DivRem(a, d, rem) ==
    IF a = <<>> THEN [q |-> <<>>, r |-> rem]
    ELSE IF Len(a) = 1
    THEN [q |-> <<(2 * rem + a[1]) \div d>>, r |-> (2 * rem + a[1]) % d]
    ELSE LET k == Len(a) \div 2
             hi == DivRem(SubSeq(a, k + 1, Len(a)), d, rem)
         IN  IF hi.r >= d THEN hi
             ELSE LET lo == DivRem(SubSeq(a, 1, k), d, hi.r)
                  IN  [q |-> lo.q \o hi.q, r |-> lo.r]
NatDivRem(a, d) == DivRem(a, d, 0)

\* The magnitude a (followed by a non-zero tail below the grid when sticky)
\* rounded to MantissaBits significant bits, to nearest, ties to even.
RoundMantissa(a, sticky) ==
    LET len == Len(a)
        r == len - MantissaBits
    IN  IF r <= 0 THEN a
        ELSE LET q == SubSeq(a, r + 1, len)
                 low == sticky \/ \E i \in 1..(r - 1) : a[i] = 1
                 up == a[r] = 1 /\ (low \/ q[1] = 1)
             IN  Zeros(r) \o (IF up THEN NatAdd(q, <<1>>) ELSE q)

F64(neg, mag) == [neg |-> neg /\ mag # <<>>, mag |-> mag]

\* The literal t/10 (a slider value with one decimal) and an integer n.
f64_from_tenths(t) ==
    LET d == NatDivRem(Zeros(GridBits) \o Bits(Abs(t)), 10)
    IN  F64(t < 0, RoundMantissa(Trim(d.q), d.r # 0))
f64_from(n) == F64(n < 0, IF n = 0 THEN <<>> ELSE Zeros(GridBits) \o Bits(Abs(n)))

f64_neg(x) == F64(~x.neg, x.mag)
f64_abs(x) == F64(FALSE, x.mag)

f64_add(x, y) ==
    IF x.neg = y.neg THEN F64(x.neg, RoundMantissa(NatAdd(x.mag, y.mag), FALSE))
    ELSE IF NatLess(x.mag, y.mag) THEN F64(y.neg, RoundMantissa(NatSub(y.mag, x.mag), FALSE))
    ELSE F64(x.neg, RoundMantissa(NatSub(x.mag, y.mag), FALSE))
f64_sub(x, y) == f64_add(x, f64_neg(y))

\* The product has 2 * GridBits bits below the point; it is rounded, then
\* brought back to the grid (the bits dropped are zero after the rounding).
f64_mul(x, y) ==
    LET p == RoundMantissa(NatMul(x.mag, y.mag), FALSE)
    IN  F64(x.neg # y.neg, SubSeq(p, GridBits + 1, Len(p)))

\* x / 2., exact on the grid.
f64_half(x) == F64(x.neg, IF x.mag = <<>> THEN <<>> ELSE Tail(x.mag))

f64_lt(x, y) ==
    IF x.neg # y.neg THEN x.neg
    ELSE IF x.neg THEN NatLess(y.mag, x.mag)
    ELSE NatLess(x.mag, y.mag)

(***************************************************************************)
(* The shifts of the cascade as the program computes them, in f64          *)
(* (peak.rs:296-326), and MultipletCascade::is_stage_resolved on them.     *)
(***************************************************************************)
\* peak.rs:316-321: the shifts of the children of one peaklet, delta growing
\* by `δ += splitter.j` from one child to the next.
RECURSIVE f64_child_loop(_, _, _)
f64_child_loop(delta, j, count) ==
    IF count = 0 THEN <<>>
    ELSE <<delta>> \o f64_child_loop(f64_add(delta, j), j, count - 1)

\* peak.rs:313-314: δ = peaklet.δ - f64::from(peak_count - 1) * splitter.j / 2.
f64_children(delta, splitter) ==
    LET peak_count == resultant_peaklet_count(splitter)
        j == f64_from_tenths(splitter.j)
    IN  f64_child_loop(f64_sub(delta, f64_half(f64_mul(f64_from(peak_count - 1), j))),
                       j, peak_count)

\* The queue is first in, first out: a stage holds the children of the
\* peaklets of the stage before it, parent after parent.
RECURSIVE f64_next_stage(_, _)
f64_next_stage(parents, splitter) ==
    IF parents = <<>> THEN <<>>
    ELSE f64_children(Head(parents), splitter) \o f64_next_stage(Tail(parents), splitter)

\* The shifts of stage n of the cascade of p; PARENT_SINGLET has δ = 0.
RECURSIVE f64_stage(_, _)
f64_stage(p, n) ==
    IF n = 0 THEN <<f64_from(0)>>
    ELSE f64_next_stage(f64_stage(p, n - 1), p.splitters[n])

\* Peaklet::overlaps_with: (self.δ - b.δ).abs() < fwhm * 1.1
f64_overlaps_with(a, b, width) ==
    f64_lt(f64_abs(f64_sub(a, b)), f64_mul(width, f64_from_tenths(11)))

\* array_windows().all(..) on the children of one group.
f64_all_windows_resolved(children, width) ==
    \A i \in 1..(Len(children) - 1) : ~f64_overlaps_with(children[i], children[i + 1], width)

\* chunks_exact(group_size) of stage n: the children of group i.
f64_group(p, n, i) ==
    LET group_size == resultant_peaklet_count(p.splitters[n])
    IN  SubSeq(f64_stage(p, n), (i - 1) * group_size + 1, i * group_size)

\* is_stage_resolved(n) on the built cascade of p, n <= len(splitters).
f64_is_stage_resolved(p, n) ==
    IF n = 0 THEN TRUE
    ELSE f64_all_windows_resolved(f64_group(p, n, 1), f64_from_tenths(p.fwhm))

\* The peaks whose cascade is computed in f64: one or two splitters,
\* doublets and triplets (n = 1, 2), with coupling constants of the J slider
\* (0.2 to 20.0 Hz), among them 1.1 times the line widths 1.0 Hz and 2.0 Hz.
F64JValues == {2, 11, 22, 23}
F64FwhmValues == {10, 20}
F64Peaks ==
    {p \in [splitters : SeqsUpTo([n : 1..2, j : F64JValues], 2),
            fwhm : F64FwhmValues] : p.splitters # <<>>}

IsStageResolvedF64 ==
    \E n \in 0..Len(peak.splitters) :
        PeakAnswer("f64_is_stage_resolved", n, Returned(f64_is_stage_resolved(peak, n)))

\* The shifts of the final stage, as final_waveform reads them.
FinalShiftsF64 ==
    /\ peak \in F64Peaks
    /\ PeakAnswer("f64_final_stage", Len(peak.splitters),
                  Returned(f64_stage(peak, Len(peak.splitters))))

(***************************************************************************)
(* StoreOnNthCall<N, T> (utils.rs): [N, set_count, value].                 *)
(***************************************************************************)
MaxStoreN == 3
MaxCalls == 4
\* The widths passed to set, in points.
PanelWidths == {200, 250, 300}

\* utils.rs:7-14.
store_default(N) == [N |-> N, set_count |-> 0, value |-> None]

\* set without the early return once a value is stored.
store_set_counting(s, value) ==
    IF s.set_count + 1 = s.N
    THEN [s EXCEPT !.set_count = s.set_count + 1, !.value = Some(value)]
    ELSE [s EXCEPT !.set_count = s.set_count + 1]

\* utils.rs:17-25.
store_set(s, value) ==
    IF s.value.some THEN s
    ELSE IF s.set_count + 1 = s.N
    THEN [s EXCEPT !.set_count = s.set_count + 1, !.value = Some(value)]
    ELSE [s EXCEPT !.set_count = s.set_count + 1]

\* utils.rs:27-29.
store_get(s) == s.value

StoreSet ==
    /\ Len(calls) < MaxCalls
    /\ \E w \in PanelWidths :
          /\ side_panel_width' = store_set(side_panel_width, w)
          /\ calls' = Append(calls, w)
    /\ UNCHANGED <<view_stage, field_mhz, selected_preset, cached_partial_cascade, frame>>
    /\ UNCHANGED <<cascadeVars, triVars, sumVars, dequeues>>

\* get() is called; the caller keeps what it returned and how many calls of
\* set came before.
StoreGet ==
    /\ result' = [op |-> "get", n |-> Len(calls), panic |-> "",
                  value |-> store_get(side_panel_width)]
    /\ UNCHANGED <<peak, cascade, queue, pc>>
    /\ UNCHANGED <<triVars, sumVars, dequeues, appVars>>

(***************************************************************************)
(* ui/animation.rs: CyclicallyAnimatedF64.  A value is a fraction or       *)
(* f64::INFINITY; a range is a pair <<range.0, range.1>> of fractions with *)
(* range.0 <= range.1, which is what f64::clamp requires of its bounds.    *)
(* The duration only scales the elapsed time, so a tick is given the       *)
(* quotient elapsed / duration; the clock itself is not part of the state, *)
(* and a tick may see any elapsed time.                                    *)
(***************************************************************************)
INFINITY == [num |-> 1, den |-> 0]

FLess(a, b) == a.num * b.den < b.num * a.den

\* f64::clamp for min <= max and a value that is not NaN.
clamp(v, min, max) == IF FLess(v, min) THEN min ELSE IF FLess(max, v) THEN max ELSE v

\* The points of the unit interval that the model follows are the multiples
\* of 1 / ViewDen; a frame comes after any multiple of duration / ViewDen up
\* to a whole duration and one step more.
ViewDen == 2
UnitGrid == {Frac(m, ViewDen) : m \in 0..ViewDen}
ProgressValues == {Frac(m, ViewDen) : m \in 0..(ViewDen + 1)}

\* numerics::ease_transition and numerics::ease_transition_inverse: each
\* maps the unit interval into itself.  Which point it returns is left open:
\* the callers below take the result as an input drawn from UnitGrid.
ease_transition(x) == UnitGrid
ease_transition_inverse(x) == UnitGrid

\* animation.rs:63-65.
set_value_unclamped(a, value) == [a EXCEPT !.value = value]
set_value_inner(a, value) == [a EXCEPT !.value = clamp(value, a.range[1], a.range[2])]

\* animation.rs:92-94, 96-98.
stop_animating(a) == [a EXCEPT !.anim_state = None]
is_animating(a) == a.anim_state.some

\* animation.rs:67-70.
set_value_clamping(a, value) == stop_animating(set_value_inner(a, value))

\* animation.rs:72-75.
set_range_clamping(a, range) == set_value_inner([a EXCEPT !.range = range], a.value)

\* animation.rs:47-57.
animated_new(value, range) ==
    set_value_clamping([value |-> value, range |-> range,
                        direction |-> "Forward", anim_state |-> None], value)

\* animation.rs:77-84, with initial_factor the point that
\* ease_transition_inverse returned.
new_animation_state(a, initial_factor) ==
    [a EXCEPT !.anim_state = Some([initial_factor |-> initial_factor])]

\* animation.rs:86-90.
start_animating(a, initial_factor) ==
    IF ~a.anim_state.some THEN new_animation_state(a, initial_factor) ELSE a

\* animation.rs:100-106.
toggle_animation(a, initial_factor) ==
    IF is_animating(a) THEN stop_animating(a) ELSE start_animating(a, initial_factor)

\* AnimationDirection::flip, animation.rs:30-35.
flip(direction) == IF direction = "Forward" THEN "Reverse" ELSE "Forward"

\* animation.rs:108-130.  progress is elapsed / duration, eased the point
\* that ease_transition returned and initial_factor the one that
\* ease_transition_inverse returns when the end is reached.
tick_factor(a, progress) ==
    IF a.direction = "Forward" THEN FAdd(a.anim_state.value.initial_factor, progress)
    ELSE FSub(a.anim_state.value.initial_factor, progress)

reached_end(factor) == ~(FLeq(FZero, factor) /\ FLeq(factor, FOne))

tick(a, progress, eased, initial_factor) ==
    IF ~a.anim_state.some THEN a
    ELSE LET factor == tick_factor(a, progress)
             moved == [a EXCEPT !.value =
                          FAdd(FMul(eased, FSub(a.range[2], a.range[1])), a.range[1])]
         IN  IF reached_end(factor)
             THEN [new_animation_state(moved, initial_factor)
                       EXCEPT !.direction = flip(a.direction)]
             ELSE moved

\* (self.value - self.range.0) / (self.range.1 - self.range.0), animation.rs:80.
normalized(a) == FDiv(FSub(a.value, a.range[1]), FSub(a.range[2], a.range[1]))

\* Every state that start_animating, toggle_animation and tick may leave.
StartAnimating(a) ==
    {start_animating(a, initial_factor) :
        initial_factor \in ease_transition_inverse(normalized(a))}
ToggleAnimation(a) ==
    {toggle_animation(a, initial_factor) :
        initial_factor \in ease_transition_inverse(normalized(a))}
TickAfter(a, progress) ==
    UNION {IF reached_end(tick_factor(a, progress))
           THEN {tick(a, progress, eased, initial_factor) :
                    initial_factor \in ease_transition_inverse(
                        normalized(tick(a, progress, eased, FZero)))}
           ELSE {tick(a, progress, eased, FZero)} :
           eased \in ease_transition(clamp(tick_factor(a, progress), FZero, FOne))}
Tick(a) ==
    IF ~is_animating(a) THEN {a}
    ELSE UNION {TickAfter(a, progress) : progress \in ProgressValues}

(***************************************************************************)
(* ui.rs: Protonolysis.  One action is one frame: Protonolysis::controls   *)
(* from its first line to the rebuild of the cache at its end, with the    *)
(* one widget the user operated in that frame.  The renderers              *)
(* (splitting_diagram, peak_viewer) run after controls in the same frame   *)
(* and change nothing, so they see the state the action leaves.            *)
(*                                                                         *)
(* cached_partial_cascade is kept as the Peak it was built from:           *)
(* build_multiplet_cascade is a function of that Peak alone, and with up   *)
(* to MAX_PROTON_COUNT protons in each of MAX_SPLITTERS splitters the      *)
(* cascade itself has 11111 peaklets.                                      *)
(***************************************************************************)
MAX_PROTON_COUNT == 9
MAX_SPLITTERS == 4

\* peak.rs:75-79, j in tenths of a hertz.
splitter_default == [n |-> 1, j |-> 50]

\* ui.rs:32-37.
PEAK_PRESETS ==
    [CH2 |-> <<[n |-> 3, j |-> 70]>>,
     CH3 |-> <<[n |-> 2, j |-> 70]>>]
DEFAULT_PATTERN == "CH2"

\* What the sliders are moved to: both ends of the count slider
\* (1..=MAX_PROTON_COUNT), and one value of the J slider, of the FWHM slider
\* and of the frequency slider besides the initial one.
CountValuesUpToTen == {1, MAX_PROTON_COUNT + 1}
CountValues == {1, MAX_PROTON_COUNT}
SliderJValues == {70}
SliderFwhmValues == {5, 10}
SliderFieldValues == {600, 1200}

\* The view-stage slider returns a value of its range, range.0..=range.1.
ViewValues(a) ==
    {v \in {Frac(m, ViewDen) : m \in 0..(ViewDen * MAX_SPLITTERS)} :
        FLeq(a.range[1], v) /\ FLeq(v, a.range[2])}

\* The MultipletCascade that build_multiplet_cascade returns for p.
CascadeOf(p) == [built_from |-> p]

\* Vec::swap and Vec::remove, with positions counted from 1.
swap(s, a, b) == [s EXCEPT ![a] = s[b], ![b] = s[a]]
remove(s, i) == SubSeq(s, 1, i - 1) \o SubSeq(s, i + 1, Len(s))

\* ui.rs:117-119.
can_always_modify_configuration(a) == TRUE
can_modify_configuration(a) == ~is_animating(a)

\* ui.rs:121-126.  set_duration changes the duration only.
update_animation_parameters(p, a) ==
    set_range_clamping(a, <<FZero, Frac(Len(p.splitters), 1)>>)

\* ui.rs:128-130.
is_preset_modified(p, preset) == p.splitters # PEAK_PRESETS[preset]

\* ui.rs:132-136: the peak and the view stage after apply_preset.
apply_preset_in_old_range(p, a, preset) ==
    [peak |-> [p EXCEPT !.splitters = PEAK_PRESETS[preset]],
     view_stage |-> set_value_clamping(a, INFINITY)]
apply_preset(p, a, preset) ==
    LET q == [p EXCEPT !.splitters = PEAK_PRESETS[preset]]
    IN  [peak |-> q,
         view_stage |-> set_value_clamping(update_animation_parameters(q, a), INFINITY)]

\* ui.rs:370-373 and what the frame leaves: the peak p, the frequency f, the
\* selected preset and the view stage a as the controls left them.  A panic
\* of FractionalStageIndex::new or of nth_partial_peak ends the program.
rebuilt_from_whole_peak(p, a) == Returned(p)
rebuilt(p, a) == NthPartialPeakOf(p, Exact(a.value))

Rebuild(p, f, preset, a) ==
    LET r == rebuilt(p, a)
    IN  /\ peak' = p
        /\ field_mhz' = f
        /\ selected_preset' = preset
        /\ view_stage' = a
        /\ frame' = "drawn"
        /\ cached_partial_cascade' =
               IF r.panic = "" THEN CascadeOf(r.value) ELSE cached_partial_cascade
        /\ pc' = IF r.panic = "" THEN "idle" ELSE "panicked"
        /\ UNCHANGED <<cascade, queue, result, side_panel_width, calls>>
        /\ UNCHANGED <<triVars, sumVars, dequeues>>

\* A frame in which a widget above the view-stage row was operated (or none
\* was): the tick of ui.rs:326 and the rebuild follow.
FrameEnd(p, f, preset, a) ==
    \E ticked \in Tick(a) : Rebuild(p, f, preset, ticked)

\* let enabled = self.can_modify_configuration(), ui.rs:141, gates every
\* widget of the configuration.
Enabled == pc = "idle" /\ can_modify_configuration(view_stage)

\* Nothing is operated.
IdleFrame ==
    /\ pc = "idle"
    /\ FrameEnd(peak, field_mhz, selected_preset, view_stage)

\* ui.rs:149-155.
SetFieldStrength ==
    /\ Enabled
    /\ \E f \in SliderFieldValues :
          FrameEnd(peak, f, selected_preset, view_stage)

\* ui.rs:174-180.
SetFwhm ==
    /\ Enabled
    /\ \E w \in SliderFwhmValues :
          FrameEnd([peak EXCEPT !.fwhm = w], field_mhz, selected_preset, view_stage)

\* ui.rs:190-197.
SelectPreset ==
    /\ Enabled
    /\ \E preset \in DOMAIN PEAK_PRESETS :
          FrameEnd(peak, field_mhz, preset, view_stage)

\* ui.rs:200-207.
ApplyPreset ==
    /\ Enabled
    /\ is_preset_modified(peak, selected_preset)
    /\ LET applied == apply_preset(peak, view_stage, selected_preset)
       IN  FrameEnd(applied.peak, field_mhz, selected_preset,
                    applied.view_stage)

\* ui.rs:210-222.
AddSplitter ==
    /\ Enabled
    /\ Len(peak.splitters) < MAX_SPLITTERS
    /\ LET p == [peak EXCEPT !.splitters = Append(@, splitter_default)]
           a == update_animation_parameters(p, view_stage)
       IN  FrameEnd(p, field_mhz, selected_preset,
                    set_value_clamping(a, FAdd(a.value, FOne)))

\* ui.rs:223-229.
SortSplitters ==
    /\ Enabled
    /\ FrameEnd(sort_by_j(peak), field_mhz, selected_preset, view_stage)

\* ui.rs:257-264: the count slider of row i is moved to one of counts.
SetCountIn(counts) ==
    /\ Enabled
    /\ \E i \in 1..Len(peak.splitters), n \in counts :
          FrameEnd([peak EXCEPT !.splitters[i].n = n], field_mhz,
                   selected_preset, view_stage)

\* To either end of the slider, and to its lower end only.
SetCount == SetCountIn(CountValues)
SetCountToOne == SetCountIn({1})

\* ui.rs:265-272.
SetJ ==
    /\ Enabled
    /\ \E i \in 1..Len(peak.splitters), j \in SliderJValues :
          FrameEnd([peak EXCEPT !.splitters[i].j = j], field_mhz,
                   selected_preset, view_stage)

\* ui.rs:285-287: button(i > 0, ...), with i counted from 0 there.
MoveUp ==
    /\ Enabled
    /\ \E i \in 2..Len(peak.splitters) :
          FrameEnd([peak EXCEPT !.splitters = swap(@, i - 1, i)], field_mhz,
                   selected_preset, view_stage)

\* ui.rs:288-290.
MoveDown ==
    /\ Enabled
    /\ \E i \in 1..(Len(peak.splitters) - 1) :
          FrameEnd([peak EXCEPT !.splitters = swap(@, i, i + 1)], field_mhz,
                   selected_preset, view_stage)

\* ui.rs:291-296.
DeleteSplitter ==
    /\ Enabled
    /\ Len(peak.splitters) > 1
    /\ \E i \in 1..Len(peak.splitters) :
          LET p == [peak EXCEPT !.splitters = remove(@, i)]
              a == set_value_clamping(view_stage, FSub(view_stage.value, FOne))
          IN  FrameEnd(p, field_mhz, selected_preset,
                       update_animation_parameters(p, a))

\* ui.rs:326-334: the slider of the view stage is never disabled.
SetViewStage ==
    /\ pc = "idle"
    /\ \E a \in {set_value_clamping(ticked, value) :
                    ticked \in Tick(view_stage), value \in ViewValues(view_stage)} :
          Rebuild(peak, field_mhz, selected_preset, a)

\* ui.rs:343-351: neither is the Animate / Stop button.
ToggleAnimationFrame ==
    /\ pc = "idle"
    /\ \E a \in UNION {ToggleAnimation(ticked) : ticked \in Tick(view_stage)} :
          Rebuild(peak, field_mhz, selected_preset, a)

\* The ranges and values handed to a CyclicallyAnimatedF64: Protonolysis
\* gives it the range 0.0..=len for the len of a splitter list, and the
\* values 1.0, the value plus or minus one, a value of the slider and
\* f64::INFINITY.
AnimRanges == {<<FZero, Frac(len, 1)>> : len \in 1..MAX_SPLITTERS}
AnimValues ==
    {Frac(m, ViewDen) : m \in (-ViewDen)..(ViewDen * (MAX_SPLITTERS + 1))} \cup {INFINITY}

\* One call of a method of the CyclicallyAnimatedF64 in view_stage.
AnimCall(label, a) ==
    /\ view_stage' = a
    /\ frame' = label
    /\ UNCHANGED <<field_mhz, selected_preset, cached_partial_cascade, side_panel_width, calls>>
    /\ UNCHANGED <<cascadeVars, triVars, sumVars, dequeues>>

AnimSetValueClamping ==
    \E value \in AnimValues : AnimCall("set_value_clamping", set_value_clamping(view_stage, value))

AnimSetRangeClamping ==
    \E range \in AnimRanges : AnimCall("set_range_clamping", set_range_clamping(view_stage, range))

AnimStartAnimating ==
    \E a \in StartAnimating(view_stage) : AnimCall("start_animating", a)

AnimStopAnimating == AnimCall("stop_animating", stop_animating(view_stage))

AnimToggleAnimation ==
    \E a \in ToggleAnimation(view_stage) : AnimCall("toggle_animation", a)

AnimTick == \E a \in Tick(view_stage) : AnimCall("tick", a)

(***************************************************************************)
(* Specifications.                                                         *)
(***************************************************************************)
\* A Peak has been constructed; nothing has been built from it yet.
Init ==
    /\ peak \in Peaks
    /\ cascade = NoCascade
    /\ queue = <<>>
    /\ pc = "idle"
    /\ result = NoResult
    /\ TriIdle
    /\ dsum = NoSum
    /\ dequeues = 0
    /\ AppIdle

Next ==
    \/ BuildBegin
    \/ BuildLoop
    \/ BuildReturn
    \/ BasePeaklet
    \/ ChildStagesCount
    \/ IterNthStage
    \/ IsStageResolved
    \/ NthWaveform
    \/ FinalWaveform
    \/ TotalPeakletCount
    \/ PartialCascade
    \/ DropResult

Spec == Init /\ [][Next]_vars

\* A row iterator has been created for some n.
InitPascal ==
    /\ peak = [splitters |-> <<>>, fwhm |-> 10]
    /\ cascade = NoCascade
    /\ queue = <<>>
    /\ pc = "idle"
    /\ result = NoResult
    /\ TriStart
    /\ dsum = NoSum
    /\ dequeues = 0
    /\ AppIdle

NextPascal ==
    \/ PascalNext
    \/ NormalizedNext
    \/ TriEnd

SpecPascal == InitPascal /\ [][NextPascal]_vars

\* pascals_triangle is iterated for an n up to MaxWideN, in either build
\* profile.
InitWide ==
    /\ peak = [splitters |-> <<>>, fwhm |-> 10]
    /\ cascade = NoCascade
    /\ queue = <<>>
    /\ pc = "idle"
    /\ result = NoResult
    /\ tri_fn = "pascals_triangle"
    /\ tri_n \in 0..MaxWideN
    /\ tri_k = 0
    /\ prev = 1
    /\ row = <<>>
    /\ tri_done = FALSE
    /\ dsum = NoSum
    /\ dequeues = 0
    /\ AppIdle

NextWide ==
    \/ PascalNext
    \/ PascalPanic
    \/ TriEnd

SpecWide == InitWide /\ [][NextWide]_vars

\* A DistributionSum has been collected from some distributions of one kind.
InitSum ==
    /\ peak = [splitters |-> <<>>, fwhm |-> 10]
    /\ cascade = NoCascade
    /\ queue = <<>>
    /\ pc = "idle"
    /\ result = NoResult
    /\ TriIdle
    /\ dsum \in DistributionSums
    /\ dequeues = 0
    /\ AppIdle

NextSum ==
    \/ ExtentByFwhm
    \/ ExtentBySigma
    \/ SumMax
    \/ DropValue

SpecSum == InitSum /\ [][NextSum]_vars

\* A Peak has been constructed; it is asked for its name.
InitName ==
    /\ peak \in NamePeaks
    /\ cascade = NoCascade
    /\ queue = <<>>
    /\ pc = "idle"
    /\ result = NoResult
    /\ TriIdle
    /\ dsum = NoSum
    /\ dequeues = 0
    /\ AppIdle

NextName ==
    \/ Name
    \/ DropValue

SpecName == InitName /\ [][NextName]_vars

\* A Peak has been constructed; its methods are called, nothing is built.
NextPeak ==
    \/ NthPartialPeak
    \/ SortByJ
    \/ DropValue

SpecPeak == Init /\ [][NextPeak]_vars

\* A Peak has been constructed; the shifts of its cascade are computed in
\* f64 and the resolution of a stage is read.
InitF64 ==
    /\ peak \in F64Peaks
    /\ cascade = NoCascade
    /\ queue = <<>>
    /\ pc = "idle"
    /\ result = NoResult
    /\ TriIdle
    /\ dsum = NoSum
    /\ dequeues = 0
    /\ AppIdle

NextF64 ==
    \/ IsStageResolvedF64
    \/ DropValue

SpecF64 == InitF64 /\ [][NextF64]_vars

\* A Peak has been constructed; its cascade is built, or the shifts of its
\* final stage are computed in f64.
InitOrder ==
    /\ peak \in Peaks \cup F64Peaks
    /\ cascade = NoCascade
    /\ queue = <<>>
    /\ pc = "idle"
    /\ result = NoResult
    /\ TriIdle
    /\ dsum = NoSum
    /\ dequeues = 0
    /\ AppIdle

NextOrder ==
    \/ BuildBegin
    \/ BuildLoop
    \/ BuildReturn
    \/ FinalShiftsF64
    \/ DropValue

SpecOrder == InitOrder /\ [][NextOrder]_vars

\* A StoreOnNthCall<N, f32> has been constructed by default().
InitStore ==
    /\ peak = [splitters |-> <<>>, fwhm |-> 10]
    /\ cascade = NoCascade
    /\ queue = <<>>
    /\ pc = "idle"
    /\ result = NoResult
    /\ TriIdle
    /\ dsum = NoSum
    /\ dequeues = 0
    /\ view_stage = NoView
    /\ field_mhz = 0
    /\ selected_preset = ""
    /\ cached_partial_cascade = NoCascade
    /\ side_panel_width \in {store_default(N) : N \in 1..MaxStoreN}
    /\ calls = <<>>
    /\ frame = "none"

NextStore ==
    \/ StoreSet
    \/ StoreGet

SpecStore == InitStore /\ [][NextStore]_vars

\* A CyclicallyAnimatedF64 alone, constructed by new (animation.rs:47-57).
InitAnim ==
    /\ peak \in {[splitters |-> <<>>, fwhm |-> 10]}
    /\ cascade = NoCascade
    /\ queue = <<>>
    /\ pc = "idle"
    /\ result = NoResult
    /\ TriIdle
    /\ dsum = NoSum
    /\ dequeues = 0
    /\ \E value \in AnimValues, range \in AnimRanges : view_stage = animated_new(value, range)
    /\ field_mhz = 0
    /\ selected_preset = ""
    /\ cached_partial_cascade = NoCascade
    /\ side_panel_width = NoWidth
    /\ calls = <<>>
    /\ frame = "new"

NextAnim ==
    \/ AnimSetValueClamping
    \/ AnimSetRangeClamping
    \/ AnimStartAnimating
    \/ AnimStopAnimating
    \/ AnimToggleAnimation
    \/ AnimTick

SpecAnim == InitAnim /\ [][NextAnim]_vars

\* The application after Protonolysis::new (ui.rs:96-112).
InitUi ==
    /\ peak = [splitters |-> PEAK_PRESETS[DEFAULT_PATTERN], fwhm |-> 10]
    /\ cascade = NoCascade
    /\ queue = <<>>
    /\ pc = "idle"
    /\ result = NoResult
    /\ TriIdle
    /\ dsum = NoSum
    /\ dequeues = 0
    /\ view_stage = animated_new(FOne, <<FZero, FOne>>)
    /\ field_mhz = 600
    /\ selected_preset = DEFAULT_PATTERN
    /\ cached_partial_cascade = CascadeOf(peak)
    /\ side_panel_width = NoWidth
    /\ calls = <<>>
    /\ frame = "new"

\* Frame by frame, with the preset left as selected at the start and the
\* count slider moved to its lower end.
NextUi ==
    \/ IdleFrame
    \/ SetFieldStrength
    \/ SetFwhm
    \/ ApplyPreset
    \/ AddSplitter
    \/ SortSplitters
    \/ SetCountToOne
    \/ SetJ
    \/ MoveUp
    \/ MoveDown
    \/ DeleteSplitter
    \/ SetViewStage
    \/ ToggleAnimationFrame

SpecUi == InitUi /\ [][NextUi]_vars

\* The frames that change the splitter list or a count, with the count
\* slider moved to either end.
NextConfig ==
    \/ SelectPreset
    \/ ApplyPreset
    \/ AddSplitter
    \/ SortSplitters
    \/ SetCount
    \/ MoveUp
    \/ MoveDown
    \/ DeleteSplitter

SpecConfig == InitUi /\ [][NextConfig]_vars

\* build_multiplet_cascade alone.  It is straight-line sequential code: once
\* it is called, the loop takes its next turn and returns when the queue is
\* empty, nothing else can run in between.
NextBuild ==
    \/ BuildBegin
    \/ BuildLoop
    \/ BuildReturn

\* A turn of the loop is the one step that counts a dequeue, and it can be
\* taken exactly when the loop is entered with an entry in the queue: the
\* fairness of BuildLoop is stated on the counter.
LoopTurn ==
    /\ pc = "loop"
    /\ queue # <<>>
    /\ dequeues' = dequeues + 1

SpecBuild ==
    /\ Init
    /\ [][NextBuild]_vars
    /\ WF_dequeues(LoopTurn)
    /\ WF_pc(BuildReturn)

\* A FractionalStageIndex is constructed and read.
InitIndex ==
    /\ peak = [splitters |-> <<>>, fwhm |-> 10]
    /\ cascade = NoCascade
    /\ queue = <<>>
    /\ pc = "idle"
    /\ result = NoResult
    /\ TriIdle
    /\ dsum = NoSum
    /\ dequeues = 0
    /\ AppIdle

NextIndex ==
    \/ IndexNew
    \/ IndexFull
    \/ IndexHasSignificantPartial
    \/ IndexPartialAndIndex
    \/ IndexTotalStageCount
    \/ DropValue

SpecIndex == InitIndex /\ [][NextIndex]_vars

(***************************************************************************)
(* Reference notions the properties are stated with.                       *)
(***************************************************************************)
\* The binomial coefficient C(n, k), by Pascal's rule.
RECURSIVE Binomial(_, _)
Binomial(n, k) ==
    IF k < 0 \/ k > n THEN 0
    ELSE IF k = 0 \/ k = n THEN 1
    ELSE Binomial(n - 1, k - 1) + Binomial(n - 1, k)

\* The product of (splitters[k].n + 1) over the first i splitters.
RECURSIVE CountProduct(_, _)
CountProduct(splitters, i) ==
    IF i = 0 THEN 1 ELSE CountProduct(splitters, i - 1) * (splitters[i].n + 1)

RECURSIVE IntSum(_)
IntSum(s) == IF s = <<>> THEN 0 ELSE Head(s) + IntSum(Tail(s))

RECURSIVE Concat(_)
Concat(ss) == IF ss = <<>> THEN <<>> ELSE Head(ss) \o Concat(Tail(ss))

Integrations(peaklets) == [i \in 1..Len(peaklets) |-> peaklets[i].integration]
Weights(components) == [i \in 1..Len(components) |-> components[i].normalize]

\* build_multiplet_cascade has returned.
Built == pc \in {"done", "panicked"}

FinalStage == Stage(cascade, StageCount(cascade) - 1)

\* C1: once the cascade is built, the integrations of the peaklets of its
\* final stage sum to 1, and whenever final_waveform has been read, it has one
\* component per final-stage peaklet and the weights of its components sum
\* to 1.
C1_MassConserved ==
    /\ Built => FSum(Integrations(FinalStage)) = FOne
    /\ result.op = "final_waveform" =>
          /\ result.panic = ""
          /\ Len(result.value) = Len(FinalStage)
          /\ FSum(Weights(result.value)) = FOne

C1_Witness ==
    /\ result.op = "final_waveform"
    /\ Len(peak.splitters) = 2
    /\ Len(result.value) >= 6

\* C2: once the cascade is built, for every stage index i in
\* 0..=len(splitters) the number of peaklets of stage i is the product of
\* (splitters[k].n + 1) over k < i.
C2_StageSizes ==
    Built =>
        \A i \in 0..Len(peak.splitters) :
            Len(Stage(cascade, i)) = CountProduct(peak.splitters, i)

C2_Witness ==
    /\ Built
    /\ Len(peak.splitters) = 2
    /\ peak.splitters[1].n = 1
    /\ peak.splitters[2].n = 2
    /\ Len(Stage(cascade, 2)) = 6

\* C3: in every group iter_nth_stage(n) yields on a built cascade (n >= 1),
\* the integrations of the children sum to the integration of the group's
\* parent.
C3_GroupSums ==
    (result.op = "iter_nth_stage" /\ result.panic = "") =>
        \A g \in 1..Len(result.value) :
            FSum(Integrations(result.value[g].children))
                = result.value[g].parent.integration

C3_Witness ==
    /\ result.op = "iter_nth_stage"
    /\ result.panic = ""
    /\ result.n = 2
    /\ Len(result.value) >= 2
    /\ Len(result.value[1].children) >= 2

\* The i-th child (from 0) of a parent under a splitter, in closed form:
\* delta = parent.delta - (count - 1) * j / 2 + i * j and
\* integration = parent.integration * C(n, i) / 2^n.
ExpectedChild(parent, s, i) ==
    [delta |-> parent.delta - s.n * s.j + 2 * i * s.j,
     integration |-> FMul(parent.integration, Frac(Binomial(s.n, i), 2 ^ s.n))]

\* C4: in a built cascade, for every stage i > 0, peaklet number j of stage i
\* is child number j mod (n + 1) of parent number floor(j / (n + 1)) of
\* stage i - 1, where n = splitters[i - 1].n: the children of one parent are
\* one contiguous run and the runs follow the order of the parents.
C4_ContiguousByParent ==
    Built =>
        \A i \in 1..Len(peak.splitters) :
            LET s == peak.splitters[i]
                count == s.n + 1
            IN  /\ Len(Stage(cascade, i)) = count * Len(Stage(cascade, i - 1))
                /\ \A j \in 0..(Len(Stage(cascade, i)) - 1) :
                      Stage(cascade, i)[j + 1]
                          = ExpectedChild(Stage(cascade, i - 1)[(j \div count) + 1],
                                          s, j % count)

C4_Witness ==
    /\ Built
    /\ Len(peak.splitters) = 2
    /\ peak.splitters[1].n >= 1
    /\ peak.splitters[1].j > 0
    /\ peak.splitters[2].n >= 1
    /\ peak.splitters[2].j > 0

\* C5: a loop iteration that expands a parent with splitter s appends
\* count = s.n + 1 children to the queue; child i has the closed-form delta
\* and integration, the children are symmetric about the parent's delta, and
\* for s.n = 0 the single child equals its parent.
C5_Expansion ==
    (pc = "loop" /\ queue # <<>> /\ Head(queue).splitters # <<>>) =>
        LET parent == Head(queue).peaklet
            s == Head(Head(queue).splitters)
            count == s.n + 1
            child(i) == queue'[Len(queue) + i].peaklet
        IN  /\ Len(queue') = Len(queue) - 1 + count
            /\ SubSeq(queue', 1, Len(queue) - 1) = Tail(queue)
            /\ \A i \in 0..(count - 1) :
                  /\ child(i) = ExpectedChild(parent, s, i)
                  /\ child(i).delta + child(count - 1 - i).delta = 2 * parent.delta
                  /\ queue'[Len(queue) + i].splitters = Tail(Head(queue).splitters)
            /\ s.n = 0 => child(0) = parent

C5_ChildFormula == [][C5_Expansion]_vars

C5_Witness ==
    /\ pc = "loop"
    /\ Len(Stage(cascade, 0)) = 1
    /\ Len(peak.splitters) = 2
    /\ Stage(cascade, 1) = <<>>
    /\ Len(queue) = 3
    /\ peak.splitters[1] = [n |-> 2, j |-> 11]
    /\ queue[1].peaklet = [delta |-> -22, integration |-> Frac(1, 4)]
    /\ queue[3].peaklet = [delta |-> 22, integration |-> Frac(1, 4)]

\* C6: a built cascade has len(splitters) + 1 stages and its stage 0 is the
\* one peaklet (delta 0, integration 1), which base_peaklet returns;
\* child_stages_count returns len(splitters); with no splitters the cascade
\* is that singlet alone.
C6_BaseStage ==
    /\ Built =>
          /\ StageCount(cascade) = Len(peak.splitters) + 1
          /\ Stage(cascade, 0) = <<[delta |-> 0, integration |-> Frac(1, 1)]>>
          /\ peak.splitters = <<>> =>
                cascade.stages = << <<[delta |-> 0, integration |-> Frac(1, 1)]>> >>
    /\ result.op = "base_peaklet" =>
          /\ result.panic = ""
          /\ result.value = [delta |-> 0, integration |-> Frac(1, 1)]
    /\ result.op = "child_stages_count" => result.value = Len(peak.splitters)

C6_Witness ==
    /\ result.op = "base_peaklet"
    /\ result.panic = ""
    /\ peak.splitters = <<>>
    /\ StageCount(cascade) = 1

\* C7: pascals_triangle(n) yields n + 1 terms, term k is C(n, k), and in
\* every step of the recurrence the product prev * (n + 1 - k) is divisible
\* by k.
C7_PascalRow ==
    /\ tri_fn = "pascals_triangle" =>
          /\ \A k \in 0..(Len(row) - 1) : row[k + 1] = Binomial(tri_n, k)
          /\ tri_done => (Len(row) = tri_n + 1 /\ row = pascals_triangle(tri_n))
    /\ (tri_fn # "none" /\ 0 < tri_k /\ tri_k <= tri_n) =>
          (prev * (tri_n + 1 - tri_k)) % tri_k = 0

C7_Witness ==
    /\ tri_fn = "pascals_triangle"
    /\ tri_done
    /\ tri_n = 12
    /\ row[7] = 924

\* C8: the terms of normalized_pascals_triangle(n) are C(n, k) / 2^n and sum
\* to 1, and the integer row of pascals_triangle(n) sums to the divisor 1 << n
\* the code uses, which is 2^n.
C8_NormalizedRow ==
    /\ (tri_fn = "normalized_pascals_triangle" /\ tri_done) =>
          /\ Len(row) = tri_n + 1
          /\ \A k \in 0..tri_n : row[k + 1] = Frac(Binomial(tri_n, k), 2 ^ tri_n)
          /\ FSum(row) = FOne
          /\ row = normalized_pascals_triangle(tri_n)
    /\ (tri_fn = "pascals_triangle" /\ tri_done) =>
          /\ IntSum(row) = RowSum(tri_n)
          /\ RowSum(tri_n) = 2 ^ tri_n

C8_Witness ==
    /\ tri_fn = "normalized_pascals_triangle"
    /\ tri_done
    /\ tri_n = 12
    /\ row[7] = Frac(231, 1024)

\* C9: on a built cascade, for n in 1..=len(splitters), iter_nth_stage(n)
\* does not panic and yields len(stage[n - 1]) groups; group i has parent
\* stage[n - 1][i] and splitters[n - 1].n + 1 children; the groups' children
\* concatenated are stage n.  No call of iter_nth_stage fails the
\* divisibility assertion.
C9_Groups ==
    result.op = "iter_nth_stage" =>
        /\ result.panic
              # "the number of child peaklets should be an integer multiple of the number of parents"
        /\ result.n \in 1..Len(peak.splitters) =>
              /\ result.panic = ""
              /\ Len(result.value) = Len(Stage(cascade, result.n - 1))
              /\ \A i \in 1..Len(result.value) :
                    /\ result.value[i].parent = Stage(cascade, result.n - 1)[i]
                    /\ Len(result.value[i].children) = peak.splitters[result.n].n + 1
              /\ Concat([i \in 1..Len(result.value) |-> result.value[i].children])
                    = Stage(cascade, result.n)

C9_Witness ==
    /\ result.op = "iter_nth_stage"
    /\ result.n = 2
    /\ Len(result.value) = 3
    /\ Len(result.value[3].children) = 2
    /\ result.value[1].parent # result.value[2].parent

\* C10: is_stage_resolved(0) is true; for n in 1..=len(splitters),
\* is_stage_resolved(n) is true exactly when every two adjacent children of
\* the first group of iter_nth_stage(n) are at least 1.1 * fwhm apart.
C10_Resolved ==
    result.op = "is_stage_resolved" =>
        /\ result.n = 0 => (result.panic = "" /\ result.value = TRUE)
        /\ result.n \in 1..Len(peak.splitters) =>
              LET children == iter_nth_stage(cascade, result.n).value[1].children
              IN  /\ result.panic = ""
                  /\ result.value =
                        (\A i \in 1..(Len(children) - 1) :
                            5 * Abs(children[i].delta - children[i + 1].delta)
                                >= 11 * cascade.fwhm)
                  /\ Len(children) = 1 => result.value = TRUE

\* Two adjacent children exactly 1.1 * fwhm apart: resolved.
C10_Witness ==
    /\ result.op = "is_stage_resolved"
    /\ result.n = 2
    /\ result.panic = ""
    /\ Len(peak.splitters) = 2
    /\ peak.fwhm = 10
    /\ peak.splitters[2] = [n |-> 2, j |-> 11]
    /\ result.value = TRUE

\* The whole part and the fractional part of a fraction q >= 0, from their
\* defining inequalities.
WholeOf(q) == CHOOSE w \in 0..(MaxSplitters + 3) : w * q.den <= q.num /\ q.num < (w + 1) * q.den
PartOf(q) == Frac(q.num - WholeOf(q) * q.den, q.den)

\* The index value v lies in [0, len].
InRange(v, len) ==
    /\ v.q.num >= 0
    /\ FLeq(v.q, Frac(len, 1))
    /\ v.tiny => v.q # Frac(len, 1)

\* The fraction f is j times part.
IsScaled(f, j, part) == f.den > 0 /\ f.num * part.den = j * part.num * f.den

\* C11: a call of nth_partial_peak with an index in [0, len(splitters)]
\* returns a peak that keeps the fwhm and whose splitters are the first
\* floor(index) splitters of the original, followed, when the index has a
\* fractional part above the epsilon, by the next splitter with the same n
\* and with its j multiplied by that fractional part; the call leaves the
\* original peak as it was.
C11_Step ==
    (/\ result.op = "none"
     /\ result'.op = "nth_partial_peak"
     /\ InRange(result'.n, Len(peak.splitters))) =>
        LET v == result'.n
            r == result'.value
            whole == WholeOf(v.q)
            part == PartOf(v.q)
        IN  /\ peak' = peak
            /\ result'.panic = ""
            /\ r.fwhm = peak.fwhm
            /\ Len(r.splitters) = whole + (IF part.num > 0 THEN 1 ELSE 0)
            /\ \A i \in 1..whole : r.splitters[i] = peak.splitters[i]
            /\ part.num > 0 =>
                  /\ r.splitters[whole + 1].n = peak.splitters[whole + 1].n
                  /\ IsScaled(r.splitters[whole + 1].j, peak.splitters[whole + 1].j, part)
C11_PartialPeak == [][C11_Step]_(result.op)

\* nth_partial_peak has returned for the index 1.5 on a peak of two
\* splitters: the second j, 1.1 Hz, has become 0.55 Hz.
C11_Witness ==
    /\ result.op = "nth_partial_peak"
    /\ result.panic = ""
    /\ result.n = Exact(Frac(3, 2))
    /\ Len(peak.splitters) = 2
    /\ peak.splitters[2].j = 11
    /\ Len(result.value.splitters) = 2
    /\ result.value.splitters[2].j = Frac(11, 2)
    /\ result.value.splitters[1] = peak.splitters[1]

\* C12: for a whole index k in 0..=len(splitters), total_stage_count and full
\* are both k, and the cascade built from nth_partial_peak(k) is the cascade
\* built from the whole peak cut down to its stages 0..=k: the same peaklets
\* in the same order, and the same fwhm.
C12_WholePrefix ==
    (result.op = "partial_cascade" /\ result.n >= 0) =>
        LET k == result.n
        IN  /\ result.panic = ""
            /\ total_stage_count(Exact(Frac(k, 1))) = k
            /\ full(Exact(Frac(k, 1))) = k
            /\ result.value = [stages |-> SubSeq(cascade.stages, 1, k + 1),
                               fwhm |-> cascade.fwhm]

\* The cascade of the partial peak of index 1 has been built for a peak of
\* two splitters whose first one splits: it has two of the three stages.
C12_Witness ==
    /\ result.op = "partial_cascade"
    /\ result.panic = ""
    /\ result.n = 1
    /\ Len(peak.splitters) = 2
    /\ Len(cascade.stages) = 3
    /\ Len(result.value.stages) = 2
    /\ Len(result.value.stages[2]) = 3
    /\ Len(cascade.stages[3]) > 3

\* The fractional part of the index value v exceeds f64::EPSILON: an excess
\* marked tiny does not, a non-zero multiple of 1 / IndexDen does.
ExceedsEpsilon(v) == PartOf(v.q).num > 0

\* C13: for every index value v >= 0, full() is floor(v);
\* has_significant_partial() holds exactly when the fractional part of v
\* exceeds the epsilon; partial_and_index() is (full() + 1, fractional part)
\* when it does and is absent when it does not; total_stage_count() is
\* full() plus one when it does and full() when it does not, which is the
\* index partial_and_index() gives whenever it gives one.
C13_IndexParts ==
    (result.op \in {"full", "has_significant_partial", "partial_and_index",
                    "total_stage_count"} /\ result.n.q.num >= 0) =>
        LET v == result.n
            whole == WholeOf(v.q)
            count == whole + (IF ExceedsEpsilon(v) THEN 1 ELSE 0)
        IN  /\ result.panic = ""
            /\ result.op = "full" => result.value = whole
            /\ result.op = "has_significant_partial" => result.value = ExceedsEpsilon(v)
            /\ result.op = "partial_and_index" =>
                  /\ result.value.some = ExceedsEpsilon(v)
                  /\ result.value.some =>
                        /\ result.value.value.index = whole + 1
                        /\ result.value.value.part = PartOf(v.q)
                        /\ result.value.value.index = count
            /\ result.op = "total_stage_count" => result.value = count

\* has_significant_partial has answered for 1 + epsilon: no.
C13_Witness ==
    /\ result.op = "has_significant_partial"
    /\ result.panic = ""
    /\ result.n = [q |-> Frac(1, 1), tiny |-> TRUE]
    /\ result.value = FALSE

\* C14: FractionalStageIndex::new panics on every negative value, and a call
\* that constructs the index from a negative value ends in that panic;
\* iter_nth_stage(0) panics; neither call produces a value, and the program
\* goes no further.
C14_Panics ==
    /\ \A v \in IndexValues : v.q.num < 0 => new(v) = Panicked("assertion failed: index >= 0.0")
    /\ (result.op = "partial_cascade" /\ result.n < 0) =>
          /\ result.panic = "assertion failed: index >= 0.0"
          /\ result.value = <<>>
          /\ pc = "panicked"
    /\ (result.op = "iter_nth_stage" /\ result.n = 0) =>
          /\ result.panic = "should not be called on base stage"
          /\ result.value = <<>>
          /\ pc = "panicked"

\* The partial cascade was asked for at the index -1: new has panicked.
C14_Witness ==
    /\ result.op = "partial_cascade"
    /\ result.n = -1
    /\ result.panic # ""
    /\ pc = "panicked"
    /\ Len(peak.splitters) = 2

\* iter_nth_stage was called with 0 on a cascade that has a stage 1: it has
\* panicked.
C14_WitnessBaseStage ==
    /\ result.op = "iter_nth_stage"
    /\ result.n = 0
    /\ result.panic # ""
    /\ pc = "panicked"
    /\ StageCount(cascade) > 1

\* Row n of Pascal's triangle, by adding neighbours row after row.
RECURSIVE NeighbourSums(_, _)
NeighbourSums(r, i) ==
    IF i > Len(r) + 1 THEN <<>>
    ELSE <<(IF i > 1 THEN r[i - 1] ELSE 0) + (IF i <= Len(r) THEN r[i] ELSE 0)>>
         \o NeighbourSums(r, i + 1)

NextRow(r) == NeighbourSums(r, 1)

RECURSIVE RowsUp(_, _)
RowsUp(r, n) == IF Len(r) > n THEN r ELSE RowsUp(NextRow(r), n)

BinomialRow(n) == RowsUp(<<1>>, n)

\* C15: pascals_triangle(n) never yields a term that differs from the
\* binomial row: where an intermediate product does not fit u32, the call
\* fails instead of going on with a wrapped value.
C15_NeverWrongRow ==
    tri_fn = "pascals_triangle" =>
        \A i \in 1..Len(row) : row[i] = BinomialRow(tri_n)[i]

\* C16: total_peaklet_count() is the product of (n + 1) over the splitters
\* of the peak, and it is the number of peaklets of the final stage of the
\* cascade built from the peak, whole.
C16_PeakletCount ==
    result.op = "total_peaklet_count" =>
        /\ result.panic = ""
        /\ result.value = CountProduct(peak.splitters, Len(peak.splitters))
        /\ result.value = Len(FinalStage)

\* The count has been read for a peak of two splitters with n = 2: nine.
C16_Witness ==
    /\ result.op = "total_peaklet_count"
    /\ Len(peak.splitters) = 2
    /\ peak.splitters[1].n = 2
    /\ peak.splitters[2].n = 2
    /\ result.value = 9
    /\ Len(FinalStage) = 9

\* The full width at half maximum the component g was made with.
WidthOf(g) ==
    CHOOSE w \in Widths : g = with_fwhm_normalized(g.kind, g.mu, w, g.normalize)

LeftEdge(g, n) == FSub(g.mu, FMul(n, WidthOf(g)))
RightEdge(g, n) == FAdd(g.mu, FMul(n, WidthOf(g)))

\* C17: the extent of a sum of one or more components for a multiplier n
\* runs from the least center - n * fwhm to the greatest center + n * fwhm
\* over its components; the extent of an empty sum is [0, 0].
C17_Extent ==
    result.op = "extent_by_fwhm" =>
        LET n == result.n
            cs == dsum.components
            all == 1..Len(cs)
        IN  IF cs = <<>> THEN result.value = [lo |-> FZero, hi |-> FZero]
            ELSE /\ \E i \in all : result.value.lo = LeftEdge(cs[i], n)
                 /\ \A i \in all : FLeq(result.value.lo, LeftEdge(cs[i], n))
                 /\ \E i \in all : result.value.hi = RightEdge(cs[i], n)
                 /\ \A i \in all : FLeq(RightEdge(cs[i], n), result.value.hi)

\* The extent has been read for n = 3 on a sum of a component at 0 of width
\* 1 and a component at 1 of width 2: the wider one gives both edges.
C17_Witness ==
    /\ result.op = "extent_by_fwhm"
    /\ result.n = Frac(3, 1)
    /\ Len(dsum.components) = 2
    /\ dsum.components[1].mu = Frac(0, 1)
    /\ WidthOf(dsum.components[1]) = Frac(1, 1)
    /\ dsum.components[2].mu = Frac(1, 1)
    /\ WidthOf(dsum.components[2]) = Frac(2, 1)
    /\ result.value = [lo |-> Frac(-5, 1), hi |-> Frac(7, 1)]

\* The extent has been read on an empty sum.
C17_WitnessEmpty ==
    /\ result.op = "extent_by_fwhm"
    /\ dsum.components = <<>>
    /\ result.value = [lo |-> FZero, hi |-> FZero]

FAbs(a) == [num |-> Abs(a.num), den |-> a.den]
\* a and b differ by at most one hundredth.
Near(a, b) == FLeq(FAbs(FSub(a, b)), Frac(1, 100))

\* The sum holds a single Gaussian with center 5 and fwhm 2.
SingleGaussian ==
    /\ dsum.kind = "gaussian"
    /\ Len(dsum.components) = 1
    /\ dsum.components[1].mu = Frac(5, 1)
    /\ WidthOf(dsum.components[1]) = Frac(2, 1)

\* C18, as stated: on a single Gaussian with center 5 and fwhm 2, the extent
\* for the multiplier 3 is about [5 - 3 sigma, 5 + 3 sigma].
C18_ThreeSigma ==
    (result.op = "extent_by_fwhm" /\ result.n = Frac(3, 1) /\ SingleGaussian) =>
        LET sigma == dsum.components[1].spread
        IN  /\ Near(result.value.lo, FSub(Frac(5, 1), FMul(Frac(3, 1), sigma)))
            /\ Near(result.value.hi, FAdd(Frac(5, 1), FMul(Frac(3, 1), sigma)))

\* C18, amended: on a single Gaussian with center 5 and fwhm 2 (sigma about
\* 0.849), the extent for the multiplier 3 is [5 - 3 * 2, 5 + 3 * 2] =
\* [-1, 11]: its half-width is 3 full widths at half maximum.  Only extent
\* of the older GaussianSum, whose argument counts standard deviations,
\* returns [5 - 3 sigma, 5 + 3 sigma].
C18_ThreeWidths ==
    SingleGaussian =>
        LET sigma == dsum.components[1].spread
        IN  /\ Near(sigma, Frac(849, 1000))
            /\ (result.op = "extent_by_fwhm" /\ result.n = Frac(3, 1)) =>
                  result.value = [lo |-> Frac(-1, 1), hi |-> Frac(11, 1)]
            /\ (result.op = "extent" /\ result.n = Frac(3, 1)) =>
                  /\ result.value.lo = FSub(Frac(5, 1), FMul(Frac(3, 1), sigma))
                  /\ result.value.hi = FAdd(Frac(5, 1), FMul(Frac(3, 1), sigma))

\* The extent for the multiplier 3 has been read on that single Gaussian.
C18_Witness ==
    /\ SingleGaussian
    /\ result.op = "extent_by_fwhm"
    /\ result.n = Frac(3, 1)
    /\ result.value.lo = Frac(-1, 1)
    /\ result.value.hi = Frac(11, 1)

\* C19: max() is the greatest of the values the whole sum takes at the
\* centers of its components, and 0 for an empty sum.
C19_MaxAtCenters ==
    result.op = "max" =>
        LET cs == dsum.components
            all == 1..Len(cs)
        IN  IF cs = <<>> THEN result.value = FZero
            ELSE /\ \E i \in all : result.value = sum_evaluate(dsum, cs[i].mu)
                 /\ \A i \in all : FLeq(sum_evaluate(dsum, cs[i].mu), result.value)

\* max has been read on two equal Lorentzians of width 2 at 0 and at 1: it
\* is 3/2 (in units of 1 / pi), the value at either center, while the sum is
\* 8/5 halfway between them.
C19_Witness ==
    /\ result.op = "max"
    /\ dsum.kind = "lorentzian"
    /\ Len(dsum.components) = 2
    /\ dsum.components[1] = with_fwhm_normalized("lorentzian", Frac(0, 1), Frac(2, 1), FOne)
    /\ dsum.components[2] = with_fwhm_normalized("lorentzian", Frac(1, 1), Frac(2, 1), FOne)
    /\ result.value = Frac(3, 2)
    /\ sum_evaluate(dsum, Frac(1, 2)) = Frac(8, 5)

\* max has been read on an empty sum.
C19_WitnessEmpty ==
    /\ result.op = "max"
    /\ dsum.components = <<>>
    /\ result.value = FZero

\* The single-character abbreviations, for n = 0 .. 5.
Letters == <<"s", "d", "t", "q", "p", "h">>

\* C20: name() is "s" for a peak with no splitters; for any other peak it is
\* the abbreviations s, d, t, q, p, h of its splitters, in order, exactly
\* when every splitter has n in 0..=5, and it is absent when some splitter
\* has a greater n ("hept" for 6, digits from 7 on, one digit or more).
C20_Name ==
    result.op = "name" =>
        LET count == Len(peak.splitters)
        IN  /\ result.panic = ""
            /\ count = 0 => result.value = Some(<<"s">>)
            /\ (count > 0 /\ \A i \in 1..count : peak.splitters[i].n <= 5) =>
                  result.value = Some([i \in 1..count |-> Letters[peak.splitters[i].n + 1]])
            /\ (\E i \in 1..count : peak.splitters[i].n > 5) => result.value = None

\* name() has been read on a triplet of octets: n = 7 abbreviates to the
\* single digit "8", and the peak has no name.
C20_Witness ==
    /\ result.op = "name"
    /\ Len(peak.splitters) = 2
    /\ peak.splitters[1].n = 2
    /\ peak.splitters[2].n = 7
    /\ abbreviate_pattern(peak.splitters[2]) = Owned(<<"8">>)
    /\ result.value = None

\* name() has been read on a doublet of triplets: "dt".
C20_WitnessNamed ==
    /\ result.op = "name"
    /\ Len(peak.splitters) = 2
    /\ peak.splitters[1].n = 1
    /\ peak.splitters[2].n = 2
    /\ result.value = Some(<<"d", "t">>)
\* C21: after sort_by_j the splitters are in ascending order of j, as the
\* hover text of the "Sort by J" button says.
C21_Ascending ==
    result.op = "sort_by_j" =>
        \A i \in 1..(Len(peak.splitters) - 1) :
            peak.splitters[i].j <= peak.splitters[i + 1].j
\* The number of peaklets recorded so far, and the number the whole cascade
\* has: the sum over the stages of the product of the (n + 1) before them.
Recorded == IntSum([i \in 1..Len(cascade.stages) |-> Len(cascade.stages[i])])
WholeCascade == IntSum([i \in 1..(Len(peak.splitters) + 1) |-> CountProduct(peak.splitters, i - 1)])

\* One turn of the loop dequeues the front entry, records its peaklet in the
\* stage of the entry, after every peaklet of the stages before it and before
\* any peaklet of a later stage, and records nothing else.
C22_Turn ==
    (pc = "loop" /\ pc' = "loop") =>
        /\ queue # <<>>
        /\ LET stage == Len(peak.splitters) - Len(Head(queue).splitters)
           IN  /\ cascade'.stages[stage + 1] = Append(cascade.stages[stage + 1], Head(queue).peaklet)
               /\ \A k \in 1..stage : Len(cascade.stages[k]) = CountProduct(peak.splitters, k - 1)
               /\ \A k \in (stage + 2)..Len(cascade.stages) : cascade.stages[k] = <<>>
               /\ Recorded' = Recorded + 1
               /\ dequeues' = dequeues + 1
               /\ Len(queue') + Recorded' = Len(queue) + Recorded
                                            + (IF stage < Len(peak.splitters)
                                               THEN peak.splitters[stage + 1].n + 1 ELSE 0)

\* C22: build_multiplet_cascade dequeues in non-decreasing stage order, every
\* peaklet of a stage being recorded before any peaklet of the next stage,
\* one peaklet per dequeue, and the loop ends, with an empty queue and as many
\* dequeues as the stages hold peaklets.
C22_StageOrder ==
    /\ [][C22_Turn]_vars
    /\ [](pc = "done" => (queue = <<>> /\ dequeues = Recorded /\ Recorded = WholeCascade))
    /\ (pc = "loop") ~> (pc = "done")

\* A doublet of triplets has been built: 1 + 2 + 6 dequeues.
C22_Witness ==
    /\ pc = "done"
    /\ queue = <<>>
    /\ Len(peak.splitters) = 2
    /\ peak.splitters[1].n = 1
    /\ peak.splitters[2].n = 2
    /\ dequeues = 9
    /\ Len(cascade.stages[3]) = 6
\* C23: the adjacent-pair resolution test gives the same answer on every
\* group of a stage n >= 1, so that is_stage_resolved(n), which reads the
\* first group, is the conjunction of the test over all the groups.
C23_EveryGroupAgrees ==
    (result.op = "f64_is_stage_resolved" /\ result.n >= 1) =>
        LET parents == Len(f64_stage(peak, result.n - 1))
        IN  result.value =
                (\A i \in 1..parents :
                    f64_all_windows_resolved(f64_group(peak, result.n, i),
                                             f64_from_tenths(peak.fwhm)))
\* The same elements with the same multiplicities.
SameMultiset(a, b) ==
    /\ Len(a) = Len(b)
    /\ \A i \in 1..Len(a) :
          Cardinality({k \in 1..Len(a) : a[k] = a[i]})
              = Cardinality({k \in 1..Len(b) : b[k] = a[i]})

\* The peak with its splitters in another order.
Orders(n) == {f \in [1..n -> 1..n] : \A i, k \in 1..n : f[i] = f[k] => i = k}
Reordered(p, f) == [p EXCEPT !.splitters = [i \in 1..Len(p.splitters) |-> p.splitters[f[i]]]]

\* C26, as stated: the final stage holds the same multiset of peaklets for
\* every order of the splitters.  The shifts the program computes in f64
\* would then be the same multiset of doubles for every order.
C26_AnyOrder ==
    result.op = "f64_final_stage" =>
        \A f \in Orders(Len(peak.splitters)) :
            SameMultiset(result.value, f64_stage(Reordered(peak, f), Len(peak.splitters)))

\* C26, amended: with the shifts and integrations taken as real numbers, the
\* final stage of the built cascade is the same multiset of (delta,
\* integration) pairs for every order of the splitters, and so is
\* total_peaklet_count.
C26_AnyOrderExactly ==
    pc = "done" =>
        \A f \in Orders(Len(peak.splitters)) :
            /\ SameMultiset(FinalStage,
                            LET other == build_multiplet_cascade(Reordered(peak, f))
                            IN  Stage(other, StageCount(other) - 1))
            /\ total_peaklet_count(Reordered(peak, f)) = total_peaklet_count(peak)

\* A triplet of doublets has been built; its other order is a doublet of
\* triplets, with different intermediate stages.
C26_Witness ==
    /\ pc = "done"
    /\ Len(peak.splitters) = 2
    /\ peak.splitters[1] = [n |-> 2, j |-> 11]
    /\ peak.splitters[2] = [n |-> 1, j |-> 1]
    /\ Len(FinalStage) = 6
    /\ Len(Stage(cascade, 1)) = 3
\* What get() returns after the given number of calls of set.
StoredAfter(count) ==
    IF count < side_panel_width.N THEN None ELSE Some(calls[side_panel_width.N])

\* Two options are both None or hold the same value.
SameOption(a, b) == a.some = b.some /\ (a.some => a.value = b.value)

\* A call of set when N calls have been made changes nothing of the store.
C30_LaterSet ==
    (Len(calls) >= side_panel_width.N /\ Len(calls') > Len(calls)) =>
        /\ side_panel_width'.set_count = side_panel_width.set_count
        /\ SameOption(side_panel_width'.value, side_panel_width.value)

\* C30: for N >= 1, get() returns nothing until set has been called N times
\* and from then on the value passed to the N-th call; the counter counts the
\* calls up to the N-th, and later calls of set change neither the value
\* nor the counter.
C30_StoreOnNthCall ==
    /\ [](SameOption(store_get(side_panel_width), StoredAfter(Len(calls))))
    /\ [](result.op = "get" => SameOption(result.value, StoredAfter(result.n)))
    /\ [](side_panel_width.set_count
            = IF Len(calls) < side_panel_width.N THEN Len(calls) ELSE side_panel_width.N)
    /\ [][C30_LaterSet]_vars

\* StoreOnNthCall<2, f32>, as the side panel has it: get() has been called
\* after three calls of set and returned the width of the second call.
C30_Witness ==
    /\ side_panel_width.N = 2
    /\ calls = <<200, 250, 300>>
    /\ side_panel_width.set_count = 2
    /\ result.op = "get"
    /\ result.n = 3
    /\ SameOption(result.value, Some(250))
(***************************************************************************)
(* CyclicallyAnimatedF64 and the frames of Protonolysis.                   *)
(***************************************************************************)
WithinRange(a) == FLeq(a.range[1], a.value) /\ FLeq(a.value, a.range[2])

SameAnimated(a, b) ==
    /\ a.value = b.value
    /\ a.range = b.range
    /\ a.direction = b.direction
    /\ a.anim_state.some = b.anim_state.some
    /\ (a.anim_state.some => a.anim_state.value = b.anim_state.value)

animVars == <<frame, view_stage.value, view_stage.range, view_stage.direction,
              view_stage.anim_state.some>>

C28_StopsAnimation == frame' = "set_value_clamping" => ~is_animating(view_stage')
C28_IdleTick ==
    (frame' = "tick" /\ ~is_animating(view_stage)) => SameAnimated(view_stage', view_stage)

C25_CacheIsCurrent ==
    /\ pc = "idle"
    /\ cached_partial_cascade =
          CascadeOf(NthPartialPeakOf(peak, Exact(view_stage.value)).value)

\* Three splitters with an edited fwhm, drawn halfway into the second stage
\* while the animation runs: the cache holds two splitters.
C25_Witness ==
    /\ frame = "drawn"
    /\ Len(peak.splitters) = 3
    /\ peak.fwhm = 5
    /\ is_animating(view_stage)
    /\ view_stage.value = Frac(3, 2)
    /\ Len(cached_partial_cascade.built_from.splitters) = 2
    /\ cached_partial_cascade.built_from.splitters[2].j =
          ScaleJ(peak.splitters[2].j, Frac(1, 2))

\* C27: after any sequence of Add, Delete, count-slider edits and Apply
\* preset, every splitter has 1 <= n <= MAX_PROTON_COUNT and the peak has
\* between 1 and MAX_SPLITTERS splitters, so total_peaklet_count is at most
\* 10^4.
C27_BoundedConfiguration ==
    /\ Len(peak.splitters) >= 1
    /\ Len(peak.splitters) <= MAX_SPLITTERS
    /\ \A i \in 1..Len(peak.splitters) :
          peak.splitters[i].n >= 1 /\ peak.splitters[i].n <= MAX_PROTON_COUNT
    /\ total_peaklet_count(peak) <= 10000

\* MAX_SPLITTERS splitters of MAX_PROTON_COUNT protons each.
C27_Witness ==
    /\ Len(peak.splitters) = MAX_SPLITTERS
    /\ \A i \in 1..Len(peak.splitters) : peak.splitters[i].n = MAX_PROTON_COUNT

C29_Frozen == is_animating(view_stage) => (peak' = peak /\ field_mhz' = field_mhz)

\* C29: a frame that starts while the view-stage animation is running leaves
\* the splitter list, every n and j, the fwhm and the instrument frequency as
\* they were.
C29_NoEditWhileAnimating == [][C29_Frozen]_<<peak, field_mhz>>

\* The animation runs, has turned round once, over an edited configuration.
C29_Witness ==
    /\ frame = "drawn"
    /\ is_animating(view_stage)
    /\ view_stage.direction = "Reverse"
    /\ Len(peak.splitters) = 2
    /\ peak.fwhm = 5
    /\ field_mhz = 1200

====
